---- MODULE Spec2Model ----
(***************************************************************************)
(* Model of the quote-to-source attribution pipeline of QDD2.              *)
(*                                                                         *)
(* Text is modelled character by character: a string is a sequence of     *)
(* characters and a character is a TLA+ string naming it.  ASCII           *)
(* characters name themselves ("a", "S", " ", "-", "!").  Characters       *)
(* outside ASCII carry a name: "MIDDOT" is U+00B7, "HDOT" is U+2027,       *)
(* "ARAEA" is U+318D, and a Hangul syllable is named by its romanisation   *)
(* in lower case ("teu" "reom" "peu" is the word 트럼프).                  *)
(***************************************************************************)
EXTENDS Integers, Sequences, FiniteSets, TLC

VARIABLES
    \* normalize_korean_phrase: the text and how often it was normalized
    nk_text, nk_prev, nk_calls,
    \* merge_ner_entities: the tokens of one sentence, the entities returned
    mg_results, mg_entities, mg_done,
    \* rerank_with_ner_boost: its arguments, the list returned by the last
    \* call, the list returned by the call before, the number of calls
    rr_keywords, rr_entities, rr_out, rr_prev, rr_calls,
    \* SearchService.search: where the call stands, its arguments, the
    \* backends called so far, what each backend answered, the list returned
    \* and the exception that left the call
    ss_pc, ss_query, ss_is_trump_context, ss_rollcall, ss_num_results,
    ss_calls, ss_rollcall_outcome, ss_rollcall_links, ss_cse_outcome,
    ss_candidates, ss_search_items, ss_raised,
    \* _dedupe_preserve: its argument, the list returned
    dp_seq, dp_out, dp_done,
    \* generate_search_query: the arguments and the services of one call, the
    \* version called, and what it returned
    qb_args, qb_version, qb_result,
    \* span matching: the arguments and the services of one call, the function
    \* called, and what it returned
    sp_args, sp_call, sp_result,
    \* resolve_person_name_en: the argument and the services of one call, whether
    \* it was called, and what it returned or raised
    nm_args, nm_done, nm_result,
    \* the context classifiers: the arguments of one call, the classifier called,
    \* and what it returned
    cx_args, cx_call, cx_result,
    \* collect_candidates_google_cse: its arguments, where the call stands, the
    \* loop variables, the candidates and the URLs seen, the requests finished
    cs_args, cs_pc, cs_loop, cs_candidates, cs_seen, cs_requests,
    \* extract_keywords_with_ner, the building of entities_by_type: the entities,
    \* how many of them were handled, seen_normalized and entities_by_type
    en_entities, en_pos, en_seen, en_by_type,
    \* two pipeline invocations in one process: the input of each, the local
    \* variables of each, the cookies of the shared HTTP session by the invocation
    \* whose request stored them, and whether a request sent a cookie that the
    \* other invocation had stored
    pl_input, pl_local, pl_session, pl_foreign

normVars == <<nk_text, nk_prev, nk_calls>>
mergeVars == <<mg_results, mg_entities, mg_done>>
rerankVars == <<rr_keywords, rr_entities, rr_out, rr_prev, rr_calls>>
searchVars ==
    <<ss_pc, ss_query, ss_is_trump_context, ss_rollcall, ss_num_results,
      ss_calls, ss_rollcall_outcome, ss_rollcall_links, ss_cse_outcome,
      ss_candidates, ss_search_items, ss_raised>>
dedupeVars == <<dp_seq, dp_out, dp_done>>
queryVars == <<qb_args, qb_version, qb_result>>
spanVars == <<sp_args, sp_call, sp_result>>
nameVars == <<nm_args, nm_done, nm_result>>
contextVars == <<cx_args, cx_call, cx_result>>
cseVars == <<cs_args, cs_pc, cs_loop, cs_candidates, cs_seen, cs_requests>>
entityVars == <<en_entities, en_pos, en_seen, en_by_type>>
pipelineVars == <<pl_input, pl_local, pl_session, pl_foreign>>
vars ==
    <<normVars, mergeVars, rerankVars, searchVars, dedupeVars, queryVars, spanVars,
      nameVars,
      contextVars,
      cseVars,
      entityVars,
      pipelineVars>>

(***************************************************************************)
(* Bounds of the model                                                     *)
(***************************************************************************)
MaxPhraseLen == 3
MaxTokens == 3
MaxKeywords == 3
MaxScore == 2
MaxLinks == 2
MaxCandidates == 2
MaxItems == 3
MaxQueryKeywords == 2
MaxSpanCandidates == 2

(***************************************************************************)
(* Characters and strings                                                  *)
(***************************************************************************)
\* Python's None, where a parameter or a result is Optional[str]
None == <<"None">>

UpperLetters ==
    <<"A", "B", "C", "D", "E", "F", "G", "H", "I", "J", "K", "L", "M",
      "N", "O", "P", "Q", "R", "S", "T", "U", "V", "W", "X", "Y", "Z">>
LowerLetters ==
    <<"a", "b", "c", "d", "e", "f", "g", "h", "i", "j", "k", "l", "m",
      "n", "o", "p", "q", "r", "s", "t", "u", "v", "w", "x", "y", "z">>
Digits == {"0", "1", "2", "3", "4", "5", "6", "7", "8", "9"}
\* Hangul syllables (U+AC00..U+D7A3) used by the model, romanised; none of
\* the names is a single Latin letter
Hangul == {"ak", "baek", "bo", "bu", "cha", "cheo", "da", "dam", "deu", "do", "ee", "eu",
     "eul", "eun", "ga", "gat", "ge", "gess", "go", "guk", "gwa", "gwan",
     "ha", "hoe", "ii", "jeo", "ji", "jo", "kel", "keum", "kka", "kke",
     "ma", "man", "me", "mi", "neol", "neun", "peu", "ppun", "ra", "rang", "reom",
     "reu", "reul", "ro", "seo", "sseo", "teo", "teu", "ui", "ul", "wa"}
Whitespace == {" ", "\t"}

\* str.lower() on one character
LowerOf == [c \in {UpperLetters[i] : i \in 1..26} |->
               LowerLetters[CHOOSE i \in 1..26 : UpperLetters[i] = c]]
LowerChar(c) == IF c \in DOMAIN LowerOf THEN LowerOf[c] ELSE c

\* str.lower()
RECURSIVE Lower(_)
Lower(s) == IF s = <<>> THEN <<>> ELSE <<LowerChar(Head(s))>> \o Lower(Tail(s))

\* re.sub(<character class>, "", s): drop every character of the class
RECURSIVE RemoveChars(_, _)
RemoveChars(s, class) ==
    IF s = <<>> THEN <<>>
    ELSE IF Head(s) \in class THEN RemoveChars(Tail(s), class)
         ELSE <<Head(s)>> \o RemoveChars(Tail(s), class)

\* all strings over an alphabet up to a length
RECURSIVE StringsUpTo(_, _)
StringsUpTo(alphabet, n) ==
    IF n = 0 THEN {<<>>}
    ELSE LET shorter == StringsUpTo(alphabet, n - 1)
         IN  shorter \cup {Append(s, c) : s \in shorter, c \in alphabet}

(***************************************************************************)
(* text_utils.normalize_korean_phrase                                      *)
(***************************************************************************)
\* The character class of re.sub(r"[·‧ㆍ\\-_/\\s]", "", text).  Inside the
\* class, "\\" is a literal backslash, so "\\-_" is the range from backslash
\* (0x5C) to underscore (0x5F), and "\\s" is a backslash followed by the
\* letter s: the class holds the three dots, backslash, "]", "^", "_", "/"
\* and "s".  It holds neither the hyphen nor any whitespace character.
SeparatorClass == {"MIDDOT", "HDOT", "ARAEA", "\\", "]", "^", "_", "/", "s"}

normalize_korean_phrase(text) ==
    IF text = None THEN <<>>
    ELSE Lower(RemoveChars(text, SeparatorClass))

NormAlphabet == {"a", "A", "s", "S", " ", "-", "_", "/", "\\", "MIDDOT"}

NormIdle ==
    /\ nk_text = <<>>
    /\ nk_prev = <<>>
    /\ nk_calls = 0

MergeIdle ==
    /\ mg_results = <<>>
    /\ mg_entities = <<>>
    /\ mg_done = FALSE

RerankIdle ==
    /\ rr_keywords = <<>>
    /\ rr_entities = <<>>
    /\ rr_out = <<>>
    /\ rr_prev = <<>>
    /\ rr_calls = 0

SearchIdle ==
    /\ ss_pc = "idle"
    /\ ss_query = <<>>
    /\ ss_is_trump_context = FALSE
    /\ ss_rollcall = FALSE
    /\ ss_num_results = 5
    /\ ss_calls = <<>>
    /\ ss_rollcall_outcome = "none"
    /\ ss_rollcall_links = <<>>
    /\ ss_cse_outcome = "none"
    /\ ss_candidates = <<>>
    /\ ss_search_items = <<>>
    /\ ss_raised = "none"

DedupeIdle ==
    /\ dp_seq = <<>>
    /\ dp_out = <<>>
    /\ dp_done = FALSE

QueryIdle ==
    /\ qb_args = <<>>
    /\ qb_version = "none"
    /\ qb_result = <<>>

SpanIdle ==
    /\ sp_args = <<>>
    /\ sp_call = "none"
    /\ sp_result = <<>>

NameIdle ==
    /\ nm_args = <<>>
    /\ nm_done = FALSE
    /\ nm_result = <<>>

ContextIdle ==
    /\ cx_args = <<>>
    /\ cx_call = "none"
    /\ cx_result = FALSE

CseIdle ==
    /\ cs_args = <<>>
    /\ cs_pc = "idle"
    /\ cs_loop = <<>>
    /\ cs_candidates = <<>>
    /\ cs_seen = {}
    /\ cs_requests = <<>>

EntityIdle ==
    /\ en_entities = <<>>
    /\ en_pos = 0
    /\ en_seen = {}
    /\ en_by_type = <<>>

PipelineIdle ==
    /\ pl_input = <<>>
    /\ pl_local = <<>>
    /\ pl_session = {}
    /\ pl_foreign = FALSE

NormInit ==
    /\ nk_text \in StringsUpTo(NormAlphabet, MaxPhraseLen)
    /\ nk_prev = nk_text
    /\ nk_calls = 0
    /\ MergeIdle /\ RerankIdle /\ SearchIdle /\ DedupeIdle /\ QueryIdle /\ SpanIdle
    /\ NameIdle
    /\ ContextIdle
    /\ CseIdle
    /\ EntityIdle
    /\ PipelineIdle

\* one call of normalize_korean_phrase on the current text
NormalizePhrase ==
    /\ nk_calls < 2
    /\ nk_prev' = nk_text
    /\ nk_text' = normalize_korean_phrase(nk_text)
    /\ nk_calls' = nk_calls + 1
    /\ UNCHANGED <<mergeVars, rerankVars, searchVars, dedupeVars, queryVars,
                   spanVars,
                   nameVars,
                   contextVars,
                   cseVars,
                   entityVars,
                   pipelineVars>>

SpecNorm == NormInit /\ [][NormalizePhrase]_vars

\* C6: normalizing an already-normalized phrase changes nothing
C6_Idempotent == nk_calls = 2 => nk_text = nk_prev

(***************************************************************************)
(* entities.merge_ner_entities                                             *)
(*                                                                         *)
(* A raw tag is a sequence of atoms: the hyphen "-" and hyphen-free pieces *)
(* ("B", "I", "PER", "O", "X"), so "B-PER" is <<"B", "-", "PER">>.  A part *)
(* of str.split("-") is again a sequence of atoms.                         *)
(***************************************************************************)
NER_LABELS == {<<"PER">>, <<"ORG">>, <<"LOC">>, <<"DAT">>, <<"AFW">>}

\* str.split(sep): the parts between the occurrences of one separator
RECURSIVE SplitOn(_, _)
SplitOn(s, sep) ==
    IF \A i \in 1..Len(s) : s[i] # sep THEN <<s>>
    ELSE LET k == CHOOSE i \in 1..Len(s) :
                      s[i] = sep /\ \A j \in 1..(i - 1) : s[j] # sep
         IN  <<SubSeq(s, 1, k - 1)>> \o SplitOn(SubSeq(s, k + 1, Len(s)), sep)

\* lines 20-43: the (entity_type, tag_type) the loop reads off one raw tag
ParseTag(raw_label) ==
    LET parts == SplitOn(raw_label, "-")
        BI == {<<"B">>, <<"I">>}
    IN  IF Len(parts) = 2
        THEN LET left == parts[1]
                 right == parts[2]
             IN  IF left \in BI /\ right \in NER_LABELS
                 THEN [entity_type |-> right, tag_type |-> left]
                 ELSE IF right \in BI /\ left \in NER_LABELS
                 THEN [entity_type |-> left, tag_type |-> right]
                 ELSE [entity_type |-> left, tag_type |-> right]
        ELSE [entity_type |-> parts[1], tag_type |-> <<"B">>]

\* (x["entity"] or "").split("-")[0]
TagHead(ent) == SplitOn(ent.entity, "-")[1]

\* the iteration of a loop that closes the pending buffer at a token whose
\* type is outside the label set
MergeStepFlushing(st, ent) ==
    LET p == ParseTag(ent.entity)
        flushed == IF st.buffer # <<>> THEN Append(st.groups, st.buffer)
                   ELSE st.groups
    IN  IF p.entity_type \notin NER_LABELS
        THEN [groups |-> flushed, buffer |-> <<>>]
        ELSE IF p.tag_type = <<"B">>
        THEN [groups |-> flushed, buffer |-> <<ent>>]
        ELSE IF p.tag_type = <<"I">> /\ st.buffer # <<>>
        THEN LET last == st.buffer[Len(st.buffer)]
                 prev_type == TagHead(last)
             IN  IF p.entity_type = prev_type /\ ent.start <= last.end + 1
                 THEN [groups |-> st.groups, buffer |-> Append(st.buffer, ent)]
                 ELSE [groups |-> flushed, buffer |-> <<ent>>]
        ELSE [groups |-> flushed, buffer |-> <<>>]

\* lines 45-64: one iteration of the loop over the tokens;
\* st = [groups |-> merged_groups, buffer |-> buffer]
MergeStep(st, ent) ==
    LET p == ParseTag(ent.entity)
        flushed == IF st.buffer # <<>> THEN Append(st.groups, st.buffer)
                   ELSE st.groups
    IN  IF p.entity_type \notin NER_LABELS THEN st
        ELSE IF p.tag_type = <<"B">>
        THEN [groups |-> flushed, buffer |-> <<ent>>]
        ELSE IF p.tag_type = <<"I">> /\ st.buffer # <<>>
        THEN LET last == st.buffer[Len(st.buffer)]
                 prev_type == TagHead(last)
             IN  IF p.entity_type = prev_type /\ ent.start <= last.end + 1
                 THEN [groups |-> st.groups, buffer |-> Append(st.buffer, ent)]
                 ELSE [groups |-> flushed, buffer |-> <<ent>>]
        ELSE [groups |-> flushed, buffer |-> <<>>]

RECURSIVE MergeLoop(_, _)
MergeLoop(st, results) ==
    IF results = <<>> THEN st
    ELSE MergeLoop(MergeStep(st, Head(results)), Tail(results))

\* lines 16-67: merged_groups after the loop and the final flush
MergedGroups(results) ==
    LET st == MergeLoop([groups |-> <<>>, buffer |-> <<>>], results)
    IN  IF st.buffer # <<>> THEN Append(st.groups, st.buffer) ELSE st.groups

\* str.replace("##", "")
RECURSIVE StripSubword(_)
StripSubword(w) ==
    IF Len(w) < 2 THEN w
    ELSE IF w[1] = "#" /\ w[2] = "#" THEN StripSubword(SubSeq(w, 3, Len(w)))
    ELSE <<Head(w)>> \o StripSubword(Tail(w))

RECURSIVE LStrip(_)
LStrip(s) ==
    IF s # <<>> /\ Head(s) \in Whitespace THEN LStrip(Tail(s)) ELSE s

RECURSIVE RStrip(_)
RStrip(s) ==
    IF s # <<>> /\ s[Len(s)] \in Whitespace
    THEN RStrip(SubSeq(s, 1, Len(s) - 1)) ELSE s

\* str.strip()
Strip(s) == RStrip(LStrip(s))

\* line 72: the surface form of one group
RECURSIVE GroupWord(_)
GroupWord(group) ==
    IF group = <<>> THEN <<>>
    ELSE StripSubword(Head(group).word) \o GroupWord(Tail(group))

PunctuationWords ==
    {<<"\"">>, <<"'">>, <<"(">>, <<")">>, <<"[">>, <<"]">>, <<"{">>, <<"}">>,
     <<",">>, <<".">>, <<"!">>, <<"?">>}

\* lines 69-85: the entities of the groups that pass the filters
RECURSIVE GroupEntities(_)
GroupEntities(groups) ==
    IF groups = <<>> THEN <<>>
    ELSE LET group == Head(groups)
             entity_type == TagHead(group[1])
             word == Strip(GroupWord(group))
             dropped ==
                 \/ Len(word) < 2
                 \/ word \in PunctuationWords
                 \/ RemoveChars(word, {" ", "-", "MIDDOT"}) = <<>>
         IN  (IF dropped THEN <<>>
              ELSE <<[label |-> entity_type, word |-> word]>>)
             \o GroupEntities(Tail(groups))

merge_ner_entities(results) == GroupEntities(MergedGroups(results))

\* the tag shapes of the tagger's output, the shapes the parser falls back
\* on, and a label outside the kept set
RawTags ==
    {<<"B", "-", "PER">>, <<"I", "-", "PER">>, <<"PER", "-", "B">>,
     <<"PER", "-", "I">>, <<"ORG", "-", "I">>, <<"PER">>, <<"O">>,
     <<"PER", "-", "X">>}
TokenWords == {<<"-">>, <<"#", "#", "b", "c">>}
\* distance of a token's start from the end of the token before it: a word
\* piece adjoins the piece before it, a word follows after blanks
TokenGaps == {0, 2}

\* the tokens of a sentence, laid out left to right from the chosen gaps
RECURSIVE LayOut(_, _)
LayOut(choices, from) ==
    IF choices = <<>> THEN <<>>
    ELSE LET c == Head(choices)
             start == from + c.gap
             end == start + Len(c.word)
         IN  <<[entity |-> c.entity, word |-> c.word,
                start |-> start, end |-> end]>>
             \o LayOut(Tail(choices), end)

\* a token: its tag, its word and its gap; the hyphen adjoins what is before it
TokenChoices ==
    {c \in [entity : RawTags, word : TokenWords, gap : TokenGaps] :
        c.word = <<"-">> => c.gap = 0}

MergeInit ==
    /\ \E n \in 0..MaxTokens : \E choices \in [1..n -> TokenChoices] :
           mg_results = LayOut(choices, 0)
    /\ mg_entities = <<>>
    /\ mg_done = FALSE
    /\ NormIdle /\ RerankIdle /\ SearchIdle /\ DedupeIdle /\ QueryIdle /\ SpanIdle
    /\ NameIdle
    /\ ContextIdle
    /\ CseIdle
    /\ EntityIdle
    /\ PipelineIdle

\* one call of merge_ner_entities
MergeNerEntities ==
    /\ ~mg_done
    /\ mg_entities' = merge_ner_entities(mg_results)
    /\ mg_done' = TRUE
    /\ UNCHANGED <<mg_results, normVars, rerankVars, searchVars, dedupeVars, queryVars,
                   spanVars,
                   nameVars,
                   contextVars,
                   cseVars,
                   entityVars,
                   pipelineVars>>

SpecMerge == MergeInit /\ [][MergeNerEntities]_vars

\* C3: every entity returned by merge_ner_entities carries a label of the
\* fixed label set
C3_LabelsInSet ==
    mg_done => \A i \in 1..Len(mg_entities) : mg_entities[i].label \in NER_LABELS

(***************************************************************************)
(* keywords.rerank_with_ner_boost                                          *)
(*                                                                         *)
(* Scores are tenths (score 2 is 0.2) and rescored scores hundredths:      *)
(* alpha * score + beta * bonus with alpha = 0.7, beta = 0.3 is            *)
(* (7 * score + 3 * bonus) / 100 with bonus in tenths.  A keyword carries  *)
(* idx, its position in the argument; the code has no such field and no    *)
(* operator below reads it.                                                *)
(***************************************************************************)
alpha == 7
beta == 3

\* config.RELATION_KEYWORDS: 회담, 협력, ... (the terms over the model's alphabet)
RELATION_KEYWORDS == {<<"hoe", "dam">>}

\* Python's "needle in haystack" on strings
Contains(haystack, needle) ==
    \E i \in 0..(Len(haystack) - Len(needle)) :
        SubSeq(haystack, i + 1, i + Len(needle)) = needle

\* a bonus that knows no phrase with both kinds of term
BonusOfEither(phrase, ent_terms, rel_terms) ==
    LET normalized == normalize_korean_phrase(phrase)
        has_entity == \E et \in ent_terms : et # <<>> /\ Contains(normalized, et)
        has_relation == \E rt \in rel_terms : rt # <<>> /\ Contains(normalized, rt)
    IN  IF has_entity \/ has_relation THEN 6 ELSE 0

\* lines 28-36: the bonus of one phrase, in tenths
Bonus(phrase, ent_terms, rel_terms) ==
    LET normalized == normalize_korean_phrase(phrase)
        has_entity == \E et \in ent_terms : et # <<>> /\ Contains(normalized, et)
        has_relation == \E rt \in rel_terms : rt # <<>> /\ Contains(normalized, rt)
    IN  IF has_entity /\ has_relation THEN 10
        ELSE IF has_entity \/ has_relation THEN 6
        ELSE 0

\* lines 26-38: the rescored list, in the order of the argument
Rescored(keywords, entities) ==
    LET rel_terms == {normalize_korean_phrase(r) : r \in RELATION_KEYWORDS}
        ent_terms == {normalize_korean_phrase(entities[i].word) :
                          i \in 1..Len(entities)}
    IN  [i \in 1..Len(keywords) |->
            [phrase |-> keywords[i].phrase,
             score |-> alpha * keywords[i].score
                       + beta * Bonus(keywords[i].phrase, ent_terms, rel_terms),
             idx |-> i]]

\* the same sort without reverse=True: lowest score first
RECURSIVE SortedByScoreAsc(_)
SortedByScoreAsc(seq) ==
    IF seq = <<>> THEN <<>>
    ELSE LET front == SortedByScoreAsc(SubSeq(seq, 1, Len(seq) - 1))
             x == seq[Len(seq)]
             k == Cardinality({i \in 1..Len(front) : front[i].score <= x.score})
         IN  SubSeq(front, 1, k) \o <<x>> \o SubSeq(front, k + 1, Len(front))

\* sorted(seq, key=lambda x: x[1], reverse=True): Python's sort is stable,
\* and with reverse=True equal elements still keep their original order
RECURSIVE SortedByScoreDesc(_)
SortedByScoreDesc(seq) ==
    IF seq = <<>> THEN <<>>
    ELSE LET front == SortedByScoreDesc(SubSeq(seq, 1, Len(seq) - 1))
             x == seq[Len(seq)]
             \* x goes behind every element that does not score lower
             k == Cardinality({i \in 1..Len(front) : front[i].score >= x.score})
         IN  SubSeq(front, 1, k) \o <<x>> \o SubSeq(front, k + 1, Len(front))

\* a dict keyed by the phrase as written instead of its normalized form
RECURSIVE DedupeByRawPhrase(_, _)
DedupeByRawPhrase(seq, keys) ==
    IF seq = <<>> THEN <<>>
    ELSE LET key == Head(seq).phrase
         IN  IF key \in keys THEN DedupeByRawPhrase(Tail(seq), keys)
             ELSE <<Head(seq)>> \o DedupeByRawPhrase(Tail(seq), keys \cup {key})

\* lines 40-44: the values of the dict, in insertion order: the first entry
\* of each normalized phrase
RECURSIVE DedupeByNormalized(_, _)
DedupeByNormalized(seq, keys) ==
    IF seq = <<>> THEN <<>>
    ELSE LET key == normalize_korean_phrase(Head(seq).phrase)
         IN  IF key \in keys THEN DedupeByNormalized(Tail(seq), keys)
             ELSE <<Head(seq)>> \o DedupeByNormalized(Tail(seq), keys \cup {key})

rerank_with_ner_boost(keywords, entities) ==
    SortedByScoreDesc(
        DedupeByNormalized(SortedByScoreDesc(Rescored(keywords, entities)), {}))

\* phrases of the keyphrase extractor: a pair that normalizes alike ("A_" and
\* "a"), an entity, a relation term, an entity with a relation term
KeywordPhrases ==
    {<<"A", "_">>, <<"a">>, <<"teu">>, <<"hoe", "dam">>,
     <<"teu", " ", "hoe", "dam">>}
EntityLists == {<<>>, <<[label |-> <<"PER">>, word |-> <<"teu">>]>>}

RerankInit ==
    /\ \E n \in 0..MaxKeywords :
           rr_keywords \in [1..n -> [phrase : KeywordPhrases, score : 1..MaxScore]]
    /\ rr_entities \in EntityLists
    /\ rr_out = <<>>
    /\ rr_prev = <<>>
    /\ rr_calls = 0
    /\ NormIdle /\ MergeIdle /\ SearchIdle /\ DedupeIdle /\ QueryIdle /\ SpanIdle
    /\ NameIdle
    /\ ContextIdle
    /\ CseIdle
    /\ EntityIdle
    /\ PipelineIdle

\* one call of rerank_with_ner_boost
RerankWithNerBoost ==
    /\ rr_calls < 2
    /\ rr_prev' = rr_out
    /\ rr_out' = rerank_with_ner_boost(rr_keywords, rr_entities)
    /\ rr_calls' = rr_calls + 1
    /\ UNCHANGED <<rr_keywords, rr_entities, normVars, mergeVars, searchVars,
                   dedupeVars, queryVars, spanVars,
                   nameVars,
                   contextVars,
                   cseVars,
                   entityVars,
                   pipelineVars>>

SpecRerank == RerankInit /\ [][RerankWithNerBoost]_vars

\* the rescored score the code gives the keyword at position i
RescoredAt(i) == Rescored(rr_keywords, rr_entities)[i].score

\* C4: the returned list is sorted by rescored score, highest first; entries
\* of equal score stand in the order of the argument; a second call with the
\* same arguments returns the same list
C4_SortedStable ==
    /\ rr_calls >= 1 =>
          \A i, j \in 1..Len(rr_out) :
              i < j => /\ rr_out[i].score >= rr_out[j].score
                       /\ rr_out[i].score = rr_out[j].score
                              => rr_out[i].idx < rr_out[j].idx
    /\ rr_calls = 2 => rr_out = rr_prev

\* two entries of equal score were returned, in an order the sort had to keep
C4_Witness ==
    /\ rr_calls = 2
    /\ \E i, j \in 1..Len(rr_out) :
           /\ i < j
           /\ rr_out[i].score = rr_out[j].score
           /\ \E k \in 1..Len(rr_out) : rr_out[k].score # rr_out[i].score

\* C5: one entry per distinct normalized phrase of the argument, and it is
\* the highest rescored candidate of that phrase, the first of them on a tie
C5_DedupKeepsBest ==
    rr_calls >= 1 =>
      /\ \A i, j \in 1..Len(rr_out) :
            i # j => normalize_korean_phrase(rr_out[i].phrase)
                       # normalize_korean_phrase(rr_out[j].phrase)
      /\ \A k \in 1..Len(rr_keywords) :
            \E i \in 1..Len(rr_out) :
                /\ normalize_korean_phrase(rr_out[i].phrase)
                     = normalize_korean_phrase(rr_keywords[k].phrase)
                /\ rr_out[i].phrase = rr_keywords[rr_out[i].idx].phrase
                /\ rr_out[i].score = RescoredAt(rr_out[i].idx)
                /\ rr_out[i].score >= RescoredAt(k)
                /\ rr_out[i].score = RescoredAt(k) => rr_out[i].idx <= k
      /\ \A i \in 1..Len(rr_out) : rr_out[i].idx \in 1..Len(rr_keywords)

\* three candidates of one normalized phrase, the best score reached twice
\* and not by the first candidate
C5_Witness ==
    /\ rr_calls >= 1
    /\ Len(rr_keywords) = 3
    /\ Len(rr_out) = 1
    /\ rr_out[1].idx = 2
    /\ rr_keywords[2].phrase # rr_keywords[3].phrase
    /\ rr_keywords[2].score = rr_keywords[3].score

(***************************************************************************)
(* services.search_service.SearchService.search                            *)
(*                                                                         *)
(* The call is followed from one backend call to the next.  A URL is an    *)
(* opaque value; the query is text, because the code searches it.          *)
(***************************************************************************)
Str_trump == <<"t", "r", "u", "m", "p">>
Str_teureompeu == <<"teu", "reom", "peu">>

\* queries as the callers pass them: never empty (the callers test "if query")
SearchQueries ==
    {<<"T", "r", "u", "m", "p", " ", "m", "i", "guk">>,
     <<"teu", "reom", "peu", " ", "hoe", "dam">>,
     <<"b", "a", " ", "hoe", "dam">>}
Urls == {"https://rollcall.com/transcript/1", "https://whitehouse.gov/2"}
Snippets == {"", "snippet"}
\* the candidate records collect_candidates_google_cse appends (lines 142-149):
\* url is never empty (line 137)
CseCandidates ==
    [domain : {"whitehouse.gov"}, title : {"title"}, url : Urls, snippet : Snippets]

\* lines 66-67
has_trump_hint(query) ==
    Contains(Lower(query), Str_trump) \/ Contains(query, Str_teureompeu)

\* the choice without the rollcall flag
RollcallFirstAnyContext(query, is_trump_context, rollcall) ==
    is_trump_context \/ has_trump_hint(query)

\* line 69
RollcallFirst(query, is_trump_context, rollcall) ==
    (is_trump_context /\ rollcall) \/ has_trump_hint(query)

\* lines 77-81
RECURSIVE ItemsOfLinks(_)
ItemsOfLinks(rollcall_links) ==
    IF rollcall_links = <<>> THEN <<>>
    ELSE LET url == Head(rollcall_links)
         IN  (IF url # "" THEN <<[link |-> url, snippet |-> ""]>> ELSE <<>>)
             \o ItemsOfLinks(Tail(rollcall_links))

\* lines 91-95 and 109-113
RECURSIVE ItemsOfCandidates(_)
ItemsOfCandidates(candidates) ==
    IF candidates = <<>> THEN <<>>
    ELSE LET c == Head(candidates)
         IN  (IF c.url # "" THEN <<[link |-> c.url, snippet |-> c.snippet]>>
              ELSE <<>>)
             \o ItemsOfCandidates(Tail(candidates))

Max(a, b) == IF a >= b THEN a ELSE b

SearchInit ==
    /\ ss_pc = "start"
    /\ ss_query \in SearchQueries
    /\ ss_is_trump_context \in BOOLEAN
    /\ ss_rollcall \in BOOLEAN
    /\ ss_num_results \in {1, 5}
    /\ ss_calls = <<>>
    /\ ss_rollcall_outcome = "none"
    /\ ss_rollcall_links = <<>>
    /\ ss_cse_outcome = "none"
    /\ ss_candidates = <<>>
    /\ ss_search_items = <<>>
    /\ ss_raised = "none"
    /\ NormIdle /\ MergeIdle /\ RerankIdle /\ DedupeIdle /\ QueryIdle /\ SpanIdle
    /\ NameIdle
    /\ ContextIdle
    /\ CseIdle
    /\ EntityIdle
    /\ PipelineIdle

\* lines 61-70 and 101-102: the choice of the first backend
SearchEnter ==
    /\ ss_pc = "start"
    /\ ss_pc' = IF RollcallFirst(ss_query, ss_is_trump_context, ss_rollcall)
                 THEN "rollcall" ELSE "cse"
    /\ UNCHANGED <<ss_query, ss_is_trump_context, ss_rollcall, ss_num_results,
                   ss_calls, ss_rollcall_outcome, ss_rollcall_links,
                   ss_cse_outcome, ss_candidates, ss_search_items, ss_raised>>
    /\ UNCHANGED <<normVars, mergeVars, rerankVars, dedupeVars, queryVars,
                   spanVars,
                   nameVars,
                   contextVars,
                   cseVars,
                   entityVars,
                   pipelineVars>>

\* the same call without the try/except around get_search_results
TryRollcallUncaught ==
    /\ ss_pc = "rollcall"
    /\ ss_calls' = Append(ss_calls, "rollcall")
    /\ \E raises \in BOOLEAN :
       \E n \in 0..MaxLinks : \E links \in [1..n -> Urls] :
           /\ n <= Max(1, ss_num_results)
           /\ raises => n = 0
           /\ ss_rollcall_outcome' = IF raises THEN "raised" ELSE "returned"
           /\ ss_rollcall_links' = links
           /\ ss_search_items' = IF raises THEN <<>> ELSE ItemsOfLinks(links)
           /\ ss_raised' = IF raises THEN "Exception" ELSE ss_raised
           /\ ss_pc' = IF raises THEN "done"
                        ELSE IF ss_search_items' = <<>> THEN "cse" ELSE "done"
    /\ UNCHANGED <<ss_query, ss_is_trump_context, ss_rollcall, ss_num_results,
                   ss_cse_outcome, ss_candidates>>
    /\ UNCHANGED <<normVars, mergeVars, rerankVars, dedupeVars, queryVars,
                   spanVars,
                   nameVars,
                   contextVars,
                   cseVars,
                   entityVars,
                   pipelineVars>>

\* lines 71-84: get_search_results raises, or returns at most
\* max(1, top_k) links (rollcall_search.py line 169)
TryRollcall ==
    /\ ss_pc = "rollcall"
    /\ ss_calls' = Append(ss_calls, "rollcall")
    /\ \E raises \in BOOLEAN :
       \E n \in 0..MaxLinks : \E links \in [1..n -> Urls] :
           /\ n <= Max(1, ss_num_results)
           /\ raises => n = 0
           /\ ss_rollcall_outcome' = IF raises THEN "raised" ELSE "returned"
           /\ ss_rollcall_links' = links
           /\ ss_search_items' = IF raises THEN <<>> ELSE ItemsOfLinks(links)
    /\ ss_pc' = IF ss_search_items' = <<>> THEN "cse" ELSE "done"
    /\ UNCHANGED <<ss_query, ss_is_trump_context, ss_rollcall, ss_num_results,
                   ss_cse_outcome, ss_candidates, ss_raised>>
    /\ UNCHANGED <<normVars, mergeVars, rerankVars, dedupeVars, queryVars,
                   spanVars,
                   nameVars,
                   contextVars,
                   cseVars,
                   entityVars,
                   pipelineVars>>

\* lines 85-98 and 103-116: collect_candidates_google_cse returns candidates,
\* or fails the assertion on the credentials (search_client.py line 55), or
\* raises something else (resp.json() on a body that is no JSON, line 80)
CallCse ==
    /\ ss_pc = "cse"
    /\ ss_calls' = Append(ss_calls, "cse")
    /\ \/ \E n \in 0..MaxCandidates : \E candidates \in [1..n -> CseCandidates] :
             /\ \A i, j \in 1..n : i # j => candidates[i].url # candidates[j].url
             /\ ss_cse_outcome' = "returned"
             /\ ss_candidates' = candidates
             /\ ss_search_items' = ItemsOfCandidates(candidates)
             /\ ss_raised' = "none"
       \/ /\ ss_cse_outcome' = "AssertionError"
          /\ ss_candidates' = <<>>
          /\ ss_search_items' = <<>>
          /\ ss_raised' = "none"
       \/ /\ ss_cse_outcome' = "ValueError"
          /\ ss_candidates' = <<>>
          /\ ss_search_items' = <<>>
          /\ ss_raised' = "ValueError"
    /\ ss_pc' = "done"
    /\ UNCHANGED <<ss_query, ss_is_trump_context, ss_rollcall, ss_num_results,
                   ss_rollcall_outcome, ss_rollcall_links>>
    /\ UNCHANGED <<normVars, mergeVars, rerankVars, dedupeVars, queryVars,
                   spanVars,
                   nameVars,
                   contextVars,
                   cseVars,
                   entityVars,
                   pipelineVars>>

SearchNext == SearchEnter \/ TryRollcall \/ CallCse

SpecSearch == SearchInit /\ [][SearchNext]_vars

\* C2: when the focused backend was tried and raised, the call ends only
\* after the general backend was called, and when that returned candidates,
\* search returns those candidates (as link and snippet, in their order) and
\* no exception leaves the call
C2_RollcallFailureFallsBack ==
    (ss_pc = "done" /\ ss_rollcall_outcome = "raised")
    => /\ ss_calls = <<"rollcall", "cse">>
       /\ ss_cse_outcome = "returned" =>
             /\ ss_raised = "none"
             /\ Len(ss_search_items) = Len(ss_candidates)
             /\ \A i \in 1..Len(ss_candidates) :
                   /\ ss_search_items[i].link = ss_candidates[i].url
                   /\ ss_search_items[i].snippet = ss_candidates[i].snippet

\* the focused backend raised and the general backend returned two candidates
C2_Witness ==
    /\ ss_pc = "done"
    /\ ss_rollcall_outcome = "raised"
    /\ ss_cse_outcome = "returned"
    /\ Len(ss_candidates) = 2
    /\ Len(ss_search_items) = 2

(***************************************************************************)
(* query_builder._normalize_token, query_builder._dedupe_preserve          *)
(***************************************************************************)
\* \w of a Python str pattern: letters, digits and the underscore
WordChars ==
    {UpperLetters[i] : i \in 1..26} \cup {LowerLetters[i] : i \in 1..26}
    \cup Digits \cup Hangul \cup {"_"}
IsWordChar(c) == c \in WordChars

\* re.sub(r"[^\w\s]", " ", tok)
RECURSIVE PunctuationToSpace(_)
PunctuationToSpace(s) ==
    IF s = <<>> THEN <<>>
    ELSE <<IF IsWordChar(Head(s)) \/ Head(s) \in Whitespace
           THEN Head(s) ELSE " ">> \o PunctuationToSpace(Tail(s))

\* str.split(): the runs of characters between whitespace
RECURSIVE Words(_)
Words(s) ==
    LET t == LStrip(s)
    IN  IF t = <<>> THEN <<>>
        ELSE LET n == IF \E i \in 1..Len(t) : t[i] \in Whitespace
                      THEN (CHOOSE i \in 1..Len(t) :
                                /\ t[i] \in Whitespace
                                /\ \A j \in 1..(i - 1) : t[j] \notin Whitespace) - 1
                      ELSE Len(t)
             IN  <<SubSeq(t, 1, n)>> \o Words(SubSeq(t, n + 1, Len(t)))

\* " ".join(parts)
RECURSIVE JoinSpace(_)
JoinSpace(parts) ==
    IF parts = <<>> THEN <<>>
    ELSE IF Len(parts) = 1 THEN parts[1]
    ELSE parts[1] \o <<" ">> \o JoinSpace(Tail(parts))

\* lines 16-19
_normalize_token(tok) ==
    LET normalized == Lower(PunctuationToSpace(tok))
    IN  Strip(JoinSpace(Words(normalized)))

\* a loop that compares the items as written (text_utils.dedupe_preserve_order)
RECURSIVE DedupeExact(_, _)
DedupeExact(seq, seen) ==
    IF seq = <<>> THEN <<>>
    ELSE LET item == Head(seq)
         IN  IF item = <<>> \/ item \in seen THEN DedupeExact(Tail(seq), seen)
             ELSE <<item>> \o DedupeExact(Tail(seq), seen \cup {item})

\* lines 24-34: the loop, from the items still to read and the set seen
RECURSIVE DedupeLoop(_, _)
DedupeLoop(seq, seen) ==
    IF seq = <<>> THEN <<>>
    ELSE LET item == Head(seq)
             norm == _normalize_token(item)
         IN  IF item = <<>> THEN DedupeLoop(Tail(seq), seen)
             ELSE IF norm = <<>> \/ norm \in seen THEN DedupeLoop(Tail(seq), seen)
             ELSE <<item>> \o DedupeLoop(Tail(seq), seen \cup {norm})

\* a filter that drops the empty items only
KeepNonEmpty(seq) == SelectSeq(seq, LAMBDA item : item # <<>>)

\* lines 22-34
_dedupe_preserve(seq) == DedupeLoop(seq, {})

Str_Seoul == <<"S", "e", "o", "u", "l">>
Str_seoul_bang == <<"s", "e", "o", "u", "l", "!">>
Str_SEOUL == <<"S", "E", "O", "U", "L">>
DedupeItems ==
    {Str_Seoul, Str_seoul_bang, Str_SEOUL, <<>>, <<"!", " ">>,
     <<"a", "-", "b">>, <<"A", " ", " ", "b">>, <<"a", "_", "b">>}

DedupeInit ==
    /\ \E n \in 0..MaxItems : dp_seq \in [1..n -> DedupeItems]
    /\ dp_out = <<>>
    /\ dp_done = FALSE
    /\ NormIdle /\ MergeIdle /\ RerankIdle /\ SearchIdle /\ QueryIdle /\ SpanIdle
    /\ NameIdle
    /\ ContextIdle
    /\ CseIdle
    /\ EntityIdle
    /\ PipelineIdle

\* one call of _dedupe_preserve
DedupePreserve ==
    /\ ~dp_done
    /\ dp_out' = _dedupe_preserve(dp_seq)
    /\ dp_done' = TRUE
    /\ UNCHANGED <<dp_seq, normVars, mergeVars, rerankVars, searchVars, queryVars,
                   spanVars,
                   nameVars,
                   contextVars,
                   cseVars,
                   entityVars,
                   pipelineVars>>

SpecDedupe == DedupeInit /\ [][DedupePreserve]_vars

\* the positions of dp_seq that hold the first item of a non-empty
\* normalized token
FirstOfToken ==
    {i \in 1..Len(dp_seq) :
        /\ _normalize_token(dp_seq[i]) # <<>>
        /\ \A j \in 1..(i - 1) :
              _normalize_token(dp_seq[j]) # _normalize_token(dp_seq[i])}

\* C7: _dedupe_preserve returns, in the order of its argument, exactly the
\* first item of every non-empty normalized token; of "Seoul", "seoul!" and
\* "SEOUL", in any order and number, one entry is left
C7_FirstOfEachToken ==
    dp_done =>
      /\ Len(dp_out) = Cardinality(FirstOfToken)
      /\ \A k \in 1..Len(dp_out) :
            \E i \in FirstOfToken :
                /\ dp_out[k] = dp_seq[i]
                /\ Cardinality({j \in FirstOfToken : j < i}) = k - 1
      /\ (dp_seq # <<>> /\ \A i \in 1..Len(dp_seq) :
              dp_seq[i] \in {Str_Seoul, Str_seoul_bang, Str_SEOUL})
          => dp_out = <<dp_seq[1]>>

\* the list "Seoul", "seoul!", "SEOUL" was deduplicated
C7_Witness ==
    /\ dp_done
    /\ dp_seq = <<Str_Seoul, Str_seoul_bang, Str_SEOUL>>
    /\ dp_out = <<Str_Seoul>>

(***************************************************************************)
(* query_builder.generate_search_query, in its two versions:               *)
(* app/query_builder.py and qdd2/query_builder.py                          *)
(***************************************************************************)
\* truthiness of an Optional[str]
Truthy(s) == s # None /\ s # <<>>
\* "s or None"
OrNone(s) == IF s = <<>> THEN None ELSE s
\* seq[:n]
Take(seq, n) == SubSeq(seq, 1, IF n < Len(seq) THEN n ELSE Len(seq))
\* dict.get(key, []) and dict.get(key) or ""
DictGet(d, key) == IF key \in DOMAIN d THEN d[key] ELSE <<>>

Ko_Trump == <<"teu", "reom", "peu">>
Ko_Merkel == <<"me", "reu", "kel">>
Ko_Seoul == <<"seo", "ul">>
Ko_WhiteHouse == <<"baek", "ak", "gwan">>
Ko_Summit == <<"hoe", "dam">>
Ko_SummitWithTrump == <<"2", "cha", " ", "hoe", "dam", "ee", "seo", " ", "teu", "reom", "peu">>
Ko_Quote == <<"hoe", "dam", " ", "ha", "gess", "da">>
En_DonaldTrump == <<"D", "o", "n", "a", "l", "d", " ", "T", "r", "u", "m", "p">>
En_Merkel == <<"M", "e", "r", "k", "e", "l">>
En_Seoul == <<"S", "e", "o", "u", "l">>

\* name_lexicon.PERSON_NAME_LEXICON, in the order of its keys: the entries
\* whose key occurs in the model
PERSON_NAME_LEXICON == <<[key |-> Ko_Trump, val |-> En_DonaldTrump]>>

\* The translator and the name lookup are outside the repository.  A call of
\* translate_ko_to_en raises or returns a text; the behaviours are: a
\* rendering of its own for every text, one and the same text for every
\* argument, renderings that differ in case and punctuation only, the empty
\* text, and an exception on every call.
TranslatorBehaviours == {"faithful", "echo", "variant", "empty", "raises"}

FaithfulRendering(text) ==
    CASE text = Ko_Trump -> <<"T", "r", "u", "m", "p">>
      [] text = Ko_Merkel -> En_Merkel
      [] text = Ko_Seoul -> <<"S", "e", "o", "u", "l", ",", " ", "K", "o", "r", "e", "a">>
      [] text = Ko_WhiteHouse -> <<"W", "h", "i", "t", "e", " ", "H", "o", "u", "s", "e">>
      [] text = Ko_Summit -> <<"a", " ", "b", "i", "g", " ", "s", "u", "m", "m", "i", "t", " ", "t", "a", "l", "k">>
      [] text = Ko_SummitWithTrump -> <<"s", "u", "m", "m", "i", "t", " ", "w", "i", "t", "h", " ", "T", "r", "u", "m", "p">>
      [] text = Ko_Quote -> <<"W", "e", " ", "m", "e", "e", "t">>
      [] OTHER -> text

VariantRendering(text) ==
    CASE text = Ko_Seoul -> En_Seoul
      [] text = Ko_Summit -> <<"s", "e", "o", "u", "l", "!">>
      [] text = Ko_Quote -> <<"S", "E", "O", "U", "L">>
      [] OTHER -> FaithfulRendering(text)

\* translation.translate_ko_to_en: [raises, text]
translate_ko_to_en(env, text) ==
    [raises |-> env.translator = "raises",
     text |-> CASE env.translator = "faithful" -> FaithfulRendering(text)
                [] env.translator = "variant" -> VariantRendering(text)
                [] env.translator = "echo" -> En_Seoul
                [] OTHER -> <<>>]

\* the first n words of a translation, joined: " ".join(t.split()[:n])
FirstWords(t, n) == JoinSpace(Take(Words(t), n))

\* app/name_resolution.py lines 52-77; env.wikidata_en is the "en" of
\* get_wikidata_english_name's answer, empty when it has none
resolve_person_name_en(env, name_arg) ==
    LET name_ko == Strip(name_arg)
        exact == {i \in 1..Len(PERSON_NAME_LEXICON) :
                     PERSON_NAME_LEXICON[i].key = name_ko}
        within == {i \in 1..Len(PERSON_NAME_LEXICON) :
                      Contains(name_ko, PERSON_NAME_LEXICON[i].key)}
        First(S) == CHOOSE i \in S : \A j \in S : i <= j
        t == translate_ko_to_en(env, name_ko)
    IN  IF exact # {} THEN PERSON_NAME_LEXICON[First(exact)].val
        ELSE IF within # {} THEN PERSON_NAME_LEXICON[First(within)].val
        ELSE IF env.wikidata_en # <<>> THEN env.wikidata_en
        ELSE IF t.raises THEN name_ko ELSE t.text

\* qdd2/name_resolution.py lines 78-92: the second definition of the name in
\* the module, the one an import binds
resolve_person_name_en_qdd2(env, name_ko) ==
    LET t == translate_ko_to_en(env, name_ko)
    IN  IF env.wikidata_en # <<>> THEN env.wikidata_en
        ELSE IF t.raises THEN name_ko ELSE t.text

\* lines 139-146
SpeakerEn(version, env, use_wikidata, speaker_ko) ==
    LET t == translate_ko_to_en(env, speaker_ko)
    IN  IF use_wikidata
        THEN IF version = "app" THEN resolve_person_name_en(env, speaker_ko)
             ELSE resolve_person_name_en_qdd2(env, speaker_ko)
        ELSE IF t.raises THEN speaker_ko ELSE t.text

\* lines 152-162
RECURSIVE LocsEnTokens(_, _)
LocsEnTokens(env, loc_list) ==
    IF loc_list = <<>> THEN <<>>
    ELSE LET loc == Head(loc_list)
             t == translate_ko_to_en(env, loc)
             loc_en_first == FirstWords(SplitOn(t.text, ",")[1], 2)
         IN  (IF t.raises THEN <<loc>>
              ELSE IF loc_en_first # <<>> THEN <<loc_en_first>> ELSE <<>>)
             \o LocsEnTokens(env, Tail(loc_list))

\* lines 166-175
RECURSIVE KwsEnTokens(_, _)
KwsEnTokens(env, top_kws_ko) ==
    IF top_kws_ko = <<>> THEN <<>>
    ELSE LET kw_ko == Head(top_kws_ko)
             t == translate_ko_to_en(env, kw_ko)
             kw_en_trim == FirstWords(t.text, 3)
         IN  (IF t.raises THEN <<kw_ko>>
              ELSE IF kw_en_trim # <<>> THEN <<kw_en_trim>> ELSE <<>>)
             \o KwsEnTokens(env, Tail(top_kws_ko))

\* the translation of a chosen item cut to three words, the item itself when
\* the translator raises (app lines 213-217, 234-238, 251-254; qdd2 262-265)
ItemEn(env, item_ko) ==
    LET t == translate_ko_to_en(env, item_ko)
    IN  IF t.raises THEN item_ko ELSE FirstWords(t.text, 3)

PhrasesOf(keywords) == [i \in 1..Len(keywords) |-> keywords[i].phrase]

(***************************************************************************)
(* The article date: datetime.strptime(s, "%Y-%m-%d").strftime("%B %d %Y") *)
(***************************************************************************)
DigitValue(c) == CHOOSE v \in 0..9 : <<"0", "1", "2", "3", "4", "5", "6", "7", "8", "9">>[v + 1] = c
DigitChar(v) == <<"0", "1", "2", "3", "4", "5", "6", "7", "8", "9">>[v + 1]
IsDigits(s) == \A i \in 1..Len(s) : s[i] \in Digits
RECURSIVE NumberOf(_)
NumberOf(s) ==
    IF s = <<>> THEN 0 ELSE 10 * NumberOf(SubSeq(s, 1, Len(s) - 1)) + DigitValue(s[Len(s)])

MonthNames ==
    <<<<"J", "a", "n", "u", "a", "r", "y">>,
      <<"F", "e", "b", "r", "u", "a", "r", "y">>,
      <<"M", "a", "r", "c", "h">>,
      <<"A", "p", "r", "i", "l">>,
      <<"M", "a", "y">>,
      <<"J", "u", "n", "e">>,
      <<"J", "u", "l", "y">>,
      <<"A", "u", "g", "u", "s", "t">>,
      <<"S", "e", "p", "t", "e", "m", "b", "e", "r">>,
      <<"O", "c", "t", "o", "b", "e", "r">>,
      <<"N", "o", "v", "e", "m", "b", "e", "r">>,
      <<"D", "e", "c", "e", "m", "b", "e", "r">>>>

DaysInMonth(y, m) ==
    IF m \in {4, 6, 9, 11} THEN 30
    ELSE IF m = 2
    THEN IF (y % 4 = 0 /\ y % 100 # 0) \/ y % 400 = 0 THEN 29 ELSE 28
    ELSE 31

\* strptime(s, "%Y-%m-%d"): [ok, y, m, d].  %Y takes four digits, %m and %d
\* one or two; the text must be used up; the day must exist.
ParseIsoDate(s) ==
    LET parts == SplitOn(s, "-")
        shaped == /\ s # None
                  /\ Len(parts) = 3
                  /\ Len(parts[1]) = 4 /\ IsDigits(parts[1])
                  /\ Len(parts[2]) \in {1, 2} /\ IsDigits(parts[2])
                  /\ Len(parts[3]) \in {1, 2} /\ IsDigits(parts[3])
        y == NumberOf(parts[1])
        m == NumberOf(parts[2])
        d == NumberOf(parts[3])
    IN  IF shaped /\ y >= 1 /\ m \in 1..12 /\ d >= 1 /\ d <= DaysInMonth(y, m)
        THEN [ok |-> TRUE, y |-> y, m |-> m, d |-> d]
        ELSE [ok |-> FALSE, y |-> 0, m |-> 0, d |-> 0]

\* strftime("%B %d, %Y")
FormatDateEnComma(dt) ==
    MonthNames[dt.m] \o <<" ", DigitChar(dt.d \div 10), DigitChar(dt.d % 10), ",", " ">>
    \o <<DigitChar(dt.y \div 1000), DigitChar((dt.y \div 100) % 10),
         DigitChar((dt.y \div 10) % 10), DigitChar(dt.y % 10)>>

\* strftime("%B %d %Y"): the month's name, the day in two digits, the year
FormatDateEn(dt) ==
    MonthNames[dt.m] \o <<" ", DigitChar(dt.d \div 10), DigitChar(dt.d % 10), " ">>
    \o <<DigitChar(dt.y \div 1000), DigitChar((dt.y \div 100) % 10),
         DigitChar((dt.y \div 10) % 10), DigitChar(dt.y % 10)>>

\* try: strftime of the parsed date; except: the text as it is
FormattedOr(dt, text) == IF dt.ok THEN FormatDateEn(dt) ELSE text

\* re.fullmatch(r"\d{4}-\d{2}-\d{2}", s)
FullMatchIsoShape(s) ==
    /\ Len(s) = 10
    /\ \A i \in {1, 2, 3, 4, 6, 7, 9, 10} : s[i] \in Digits
    /\ s[5] = "-" /\ s[8] = "-"

\* app lines 190-199
DateEnApp(article_date_str) ==
    IF FullMatchIsoShape(article_date_str)
    THEN FormattedOr(ParseIsoDate(article_date_str), article_date_str)
    ELSE article_date_str

\* qdd2 lines 193-197
DateEnQdd2(article_date) == FormattedOr(ParseIsoDate(article_date), article_date)

(***************************************************************************)
(* qdd2/query_builder.py: _select_rollcall_focus_entity and the keyword    *)
(* fallback.  An entity is a dict: a function whose domain is its keys; a  *)
(* label is a sequence of atoms like a raw tag.                            *)
(***************************************************************************)
\* lines 52-56
LABEL_PRIORITY == [l \in {<<"LC">>, <<"OG">>, <<"PS">>} |->
                      IF l = <<"LC">> THEN 3 ELSE IF l = <<"OG">> THEN 2 ELSE 1]

\* str.replace(sub, "")
RECURSIVE RemoveSub(_, _)
RemoveSub(s, sub) ==
    IF Len(s) < Len(sub) THEN s
    ELSE IF SubSeq(s, 1, Len(sub)) = sub
    THEN RemoveSub(SubSeq(s, Len(sub) + 1, Len(s)), sub)
    ELSE <<Head(s)>> \o RemoveSub(Tail(s), sub)

\* lines 60-93: the dict stats, as the sequence of its items in insertion order
RECURSIVE FocusStats(_, _, _)
FocusStats(entities, speaker_ko, stats) ==
    IF entities = <<>> THEN stats
    ELSE LET ent == Head(entities)
             text_val == Strip(DictGet(ent, "text"))
             raw_label == IF DictGet(ent, "label") # <<>> THEN ent["label"]
                          ELSE IF DictGet(ent, "tag") # <<>> THEN ent["tag"]
                          ELSE DictGet(ent, "ner")
             label == RemoveSub(RemoveSub(raw_label, <<"B", "-">>), <<"I", "-">>)
             skipped ==
                 \/ text_val = <<>>
                 \/ label \notin DOMAIN LABEL_PRIORITY
                 \/ /\ label = <<"PS">>
                    /\ Truthy(speaker_ko)
                    /\ Contains(speaker_ko, text_val) \/ Contains(text_val, speaker_ko)
             known == {i \in 1..Len(stats) : stats[i].text = text_val}
             added == [text |-> text_val, label |-> label, count |-> 1,
                       len |-> Len(text_val),
                       translated |-> IF "translated" \in DOMAIN ent
                                      THEN ent["translated"] ELSE text_val]
             counted == [i \in 1..Len(stats) |->
                            IF i \in known
                            THEN [stats[i] EXCEPT !.count = @ + 1,
                                                  !.len = Max(@, Len(text_val))]
                            ELSE stats[i]]
         IN  FocusStats(Tail(entities), speaker_ko,
                        IF skipped THEN stats
                        ELSE IF known = {} THEN Append(stats, added)
                        ELSE counted)

\* lines 95-113: the best item of stats, [ko, en]; both empty without items
BestOfStats(stats) ==
    LET \* (base, count, length) of item i beats that of item j
        Beats(i, j) ==
            LET bi == LABEL_PRIORITY[stats[i].label]
                bj == LABEL_PRIORITY[stats[j].label]
            IN  \/ bi > bj
                \/ bi = bj /\ stats[i].count > stats[j].count
                \/ bi = bj /\ stats[i].count = stats[j].count
                           /\ stats[i].len > stats[j].len
        \* sorted(..., reverse=True)[0]: the first of the highest items
        best == CHOOSE i \in 1..Len(stats) :
                    /\ \A j \in 1..Len(stats) : ~Beats(j, i)
                    /\ \A j \in 1..(i - 1) : Beats(i, j)
    IN  IF stats = <<>> THEN [ko |-> <<>>, en |-> <<>>]
        ELSE [ko |-> stats[best].text, en |-> stats[best].translated]

\* lines 36-113
_select_rollcall_focus_entity(entities, speaker_ko) ==
    BestOfStats(IF entities = None THEN <<>>
                ELSE FocusStats(entities, speaker_ko, <<>>))

\* line 250: the case particles the regular expression takes off the end
Particles ==
    {<<"ee", "seo">>, <<"ee", "ge">>, <<"bu", "teo">>, <<"kka", "ji">>,
     <<"eu", "ro", "sseo">>, <<"eu", "ro", "seo">>, <<"eu", "ro">>,
     <<"man", "keum">>, <<"ppun">>, <<"jo", "cha">>, <<"ma", "jeo">>,
     <<"ma", "da">>, <<"cheo", "reom">>, <<"gat", "ii">>, <<"bo", "da">>,
     <<"kke", "seo">>, <<"ra", "go">>, <<"ha", "go">>, <<"wa">>,
     <<"gwa">>, <<"rang">>, <<"ii", "rang">>, <<"eun">>, <<"neun">>,
     <<"ii">>, <<"ga">>, <<"eul">>, <<"reul">>, <<"ui">>}

\* lines 249-253: re.sub(r"(...)$", "", tok) removes the match that starts
\* first, the longest particle the token ends with
StripParticle(tok) ==
    LET cuts == {n \in 1..Len(tok) : SubSeq(tok, Len(tok) - n + 1, Len(tok)) \in Particles}
    IN  IF cuts = {} THEN tok
        ELSE SubSeq(tok, 1, Len(tok) - (CHOOSE n \in cuts : \A k \in cuts : k <= n))

\* lines 231-257: chosen_base of one keyword phrase, empty when it has none
ChosenBase(kw_text, speaker_ko) ==
    LET toks == Words(kw_text)
        usable == {i \in 1..Len(toks) :
                      /\ ~(Truthy(speaker_ko) /\ Contains(toks[i], speaker_ko))
                      /\ Len(toks[i]) >= 2
                      /\ \A k \in 1..Len(toks[i]) : toks[i][k] \notin Digits
                      /\ \A k \in 1..Len(toks[i]) : toks[i][k] \in Hangul
                      /\ Len(StripParticle(toks[i])) >= 2}
    IN  IF kw_text = <<>> \/ (Truthy(speaker_ko) /\ Contains(kw_text, speaker_ko))
           \/ usable = {}
        THEN <<>>
        ELSE StripParticle(toks[CHOOSE i \in usable : \A j \in usable : i <= j])

\* lines 220-266: the fallback on the keywords, [ko, en]
KeywordFallback(env, keywords, speaker_ko) ==
    LET found == {i \in 1..Len(keywords) :
                     ChosenBase(keywords[i].phrase, speaker_ko) # <<>>}
        base == ChosenBase(keywords[CHOOSE i \in found : \A j \in found : i <= j].phrase,
                           speaker_ko)
    IN  IF found = {} THEN [ko |-> <<>>, en |-> <<>>]
        ELSE [ko |-> base, en |-> ItemEn(env, base)]

(***************************************************************************)
(* generate_search_query.  a is the record of the arguments, with a.env    *)
(* the behaviour of the translator and the name lookup during the call.    *)
(* The result carries ko and en, and beside them the local variables the   *)
(* queries were joined from.                                               *)
(***************************************************************************)
NonEmpty(parts) == SelectSeq(parts, LAMBDA p : p # <<>>)

\* a result of empty queries
EmptyQueriesResult ==
    [ko |-> <<>>, en |-> <<>>, mode |-> "none", parts_en |-> <<>>,
     parts_ko |-> <<>>, speaker_en |-> <<>>, date_en |-> <<>>]

\* line 137: the result when there is no speaker
NoSpeakerResult ==
    [ko |-> None, en |-> None, mode |-> "none", parts_en |-> <<>>,
     parts_ko |-> <<>>, speaker_en |-> <<>>, date_en |-> <<>>]

\* lines 139-182 of both versions: the values both modes start from
Prepared(version, a) ==
    LET speaker_ko == DictGet(a.entities_by_type, "PER")[1]
        loc_list == _dedupe_preserve(Take(DictGet(a.entities_by_type, "LOC"), 2))
        top_kws_ko == _dedupe_preserve(Take(PhrasesOf(a.keywords), a.top_k))
        q == translate_ko_to_en(a.env, a.quote_sentence)
    IN  [speaker_ko |-> speaker_ko,
         speaker_en |-> SpeakerEn(version, a.env, a.use_wikidata, speaker_ko),
         loc_list |-> loc_list,
         locs_ko |-> JoinSpace(loc_list),
         locs_en_tokens |-> LocsEnTokens(a.env, loc_list),
         top_kws_ko |-> top_kws_ko,
         kws_en_tokens |-> KwsEnTokens(a.env, top_kws_ko),
         quote_en_full |-> IF Truthy(a.quote_sentence) /\ ~q.raises THEN q.text
                           ELSE None]

\* the two queries joined from their parts (app lines 269, 280, 295-308)
QueryResult(mode, parts_en, parts_ko, speaker_en, date_en) ==
    [ko |-> OrNone(Strip(JoinSpace(parts_ko))),
     en |-> OrNone(Strip(JoinSpace(parts_en))),
     mode |-> mode, parts_en |-> parts_en, parts_ko |-> parts_ko,
     speaker_en |-> speaker_en, date_en |-> date_en]

\* app lines 204-218: the first PER entry that is not the speaker, [ko, en]
TargetPer(a, c) ==
    LET per_list == DictGet(a.entities_by_type, "PER")
        others == {i \in 1..Len(per_list) :
                      ~(c.speaker_ko # <<>> /\ per_list[i] = c.speaker_ko)}
        per == per_list[CHOOSE i \in others : \A j \in others : i <= j]
    IN  IF others = {} THEN [ko |-> <<>>, en |-> <<>>]
        ELSE [ko |-> per, en |-> ItemEn(a.env, per)]

\* app lines 223-255: the first LOC, else the first ORG, else a keyword, [ko, en]
ExtraKw(a, c) ==
    LET loc_list == DictGet(a.entities_by_type, "LOC")
        org_list == DictGet(a.entities_by_type, "ORG")
        chosen_list == IF loc_list # <<>> THEN loc_list ELSE org_list
        usable == {i \in 1..Len(a.keywords) :
                      LET kw_text == a.keywords[i].phrase
                      IN  /\ kw_text # <<>>
                          /\ ~(c.speaker_ko # <<>> /\ Contains(kw_text, c.speaker_ko))
                          /\ Len(kw_text) >= 2}
        extra_kw_ko == IF chosen_list # <<>> THEN chosen_list[1]
                       ELSE Strip(a.keywords[CHOOSE i \in usable :
                                                 \A j \in usable : i <= j].phrase)
    IN  IF chosen_list = <<>> /\ usable = {} THEN [ko |-> <<>>, en |-> <<>>]
        ELSE [ko |-> extra_kw_ko, en |-> ItemEn(a.env, extra_kw_ko)]

\* app lines 257-285
RollcallPartsApp(c, article_date_str, target_per, extra_kw) ==
    QueryResult("rollcall",
                NonEmpty(<<c.speaker_en, DateEnApp(article_date_str),
                           target_per.en, extra_kw.en>>),
                NonEmpty(<<c.speaker_ko, article_date_str, target_per.ko,
                           extra_kw.ko>>),
                c.speaker_en, DateEnApp(article_date_str))

\* app lines 187-285
RollcallQueriesApp(a, c) ==
    RollcallPartsApp(c, Strip(a.article_date), TargetPer(a, c), ExtraKw(a, c))

\* qdd2 lines 199-266: the focus entity, else the first location, else a
\* keyword token, [ko, en]
TargetWord(a, c, focus) ==
    IF focus.ko # <<>> THEN focus
    ELSE IF c.loc_list # <<>>
    THEN [ko |-> c.loc_list[1],
          en |-> IF c.locs_en_tokens # <<>> THEN c.locs_en_tokens[1]
                 ELSE c.loc_list[1]]
    ELSE IF a.keywords # <<>>
    THEN KeywordFallback(a.env, a.keywords, c.speaker_ko)
    ELSE [ko |-> <<>>, en |-> <<>>]

\* qdd2 lines 268-288
RollcallPartsQdd2(a, c, target_word) ==
    QueryResult("rollcall",
                NonEmpty(<<c.speaker_en, DateEnQdd2(a.article_date), target_word.en>>),
                NonEmpty(<<c.speaker_ko, a.article_date, target_word.ko>>),
                c.speaker_en, DateEnQdd2(a.article_date))

\* qdd2 lines 187-288
RollcallQueriesQdd2(a, c) ==
    RollcallPartsQdd2(a, c,
        TargetWord(a, c, _select_rollcall_focus_entity(a.entities, c.speaker_ko)))

\* app lines 290-308, qdd2 lines 295-313
DefaultQueries(a, c) ==
    QueryResult("default",
        _dedupe_preserve(<<c.speaker_en>> \o c.locs_en_tokens \o c.kws_en_tokens)
        \o (IF Truthy(c.quote_en_full) THEN <<c.quote_en_full>> ELSE <<>>),
        _dedupe_preserve(Words(JoinSpace(
            <<c.speaker_ko>>
            \o (IF c.locs_ko # <<>> THEN <<c.locs_ko>> ELSE <<>>)
            \o (IF c.top_kws_ko # <<>> THEN <<JoinSpace(c.top_kws_ko)>> ELSE <<>>)
            \o (IF Truthy(a.quote_sentence) THEN <<a.quote_sentence>> ELSE <<>>)))),
        c.speaker_en, <<>>)

\* app line 187: "is not None"; qdd2 line 187: truthiness
RollcallBranch(version, a) ==
    /\ a.rollcall_mode
    /\ IF version = "app" THEN a.article_date # None ELSE Truthy(a.article_date)

\* lines 184-313: the two modes
QueriesWithSpeaker(version, a, c) ==
    IF RollcallBranch(version, a)
    THEN IF version = "app" THEN RollcallQueriesApp(a, c)
         ELSE RollcallQueriesQdd2(a, c)
    ELSE DefaultQueries(a, c)

generate_search_query(version, a) ==
    IF DictGet(a.entities_by_type, "PER") = <<>> THEN NoSpeakerResult
    ELSE QueriesWithSpeaker(version, a, Prepared(version, a))

(***************************************************************************)
(* The calls of generate_search_query: the arguments of one call and the   *)
(* behaviour of the services during it are fixed at the start, and each    *)
(* version of the function may be applied to them.                         *)
(***************************************************************************)
Date_Valid == <<"2", "0", "2", "4", "-", "1", "1", "-", "2", "9">>
Date_NoSuchDay == <<"2", "0", "2", "4", "-", "0", "2", "-", "3", "0">>
Date_Short == <<"2", "0", "2", "4", "-", "1", "-", "5">>

EntitiesByType ==
    {pl.per @@ pl.place :
        pl \in [per : {<<>>, [PER |-> <<>>], [PER |-> <<Ko_Trump>>],
                       [PER |-> <<Ko_Merkel, Ko_Trump>>]},
                place : {<<>>, [LOC |-> <<Ko_Seoul>>],
                         [ORG |-> <<Ko_WhiteHouse>>]}]}

KeywordItems == [phrase : {Ko_Summit, Ko_SummitWithTrump}, score : {1}]

RawEntities ==
    {None,
     <<[text |-> Ko_Trump, label |-> <<"PS">>],
       [text |-> Ko_WhiteHouse, label |-> <<"B", "-", "OG">>,
        translated |-> <<"W", "h", "i", "t", "e", " ", "H", "o", "u", "s", "e">>],
       [text |-> Ko_Seoul, label |-> <<"LC">>, translated |-> En_Seoul]>>,
     \* what merge_ner_entities returns: label and word
     <<[label |-> <<"PER">>, word |-> Ko_Trump],
       [label |-> <<"ORG">>, word |-> Ko_WhiteHouse]>>}

Environments ==
    {[translator |-> "faithful", wikidata_en |-> <<>>],
     [translator |-> "faithful", wikidata_en |-> En_Merkel],
     [translator |-> "variant", wikidata_en |-> <<>>],
     [translator |-> "echo", wikidata_en |-> <<>>],
     [translator |-> "empty", wikidata_en |-> <<>>],
     [translator |-> "raises", wikidata_en |-> <<>>]}

QueryInit ==
    /\ \E n \in 0..MaxQueryKeywords :
         qb_args \in [entities_by_type : EntitiesByType,
                      keywords : [1..n -> KeywordItems],
                      top_k : {1, 3},
                      quote_sentence : {None, Ko_Quote},
                      article_date : {None, Date_Valid, Date_NoSuchDay, Date_Short},
                      rollcall_mode : BOOLEAN,
                      use_wikidata : BOOLEAN,
                      entities : RawEntities,
                      env : Environments]
    /\ qb_version = "none"
    /\ qb_result = <<>>
    /\ NormIdle /\ MergeIdle /\ RerankIdle /\ SearchIdle /\ DedupeIdle /\ SpanIdle
    /\ NameIdle
    /\ ContextIdle
    /\ CseIdle
    /\ EntityIdle
    /\ PipelineIdle

\* one call of app.query_builder.generate_search_query
BuildApp ==
    /\ qb_version = "none"
    /\ qb_version' = "app"
    /\ qb_result' = generate_search_query("app", qb_args)
    /\ UNCHANGED <<qb_args, normVars, mergeVars, rerankVars, searchVars, dedupeVars,
                   spanVars,
                   nameVars,
                   contextVars,
                   cseVars,
                   entityVars,
                   pipelineVars>>

\* one call of qdd2.query_builder.generate_search_query
BuildQdd2 ==
    /\ qb_version = "none"
    /\ qb_version' = "qdd2"
    /\ qb_result' = generate_search_query("qdd2", qb_args)
    /\ UNCHANGED <<qb_args, normVars, mergeVars, rerankVars, searchVars, dedupeVars,
                   spanVars,
                   nameVars,
                   contextVars,
                   cseVars,
                   entityVars,
                   pipelineVars>>

QueryNext == BuildApp \/ BuildQdd2

SpecQuery == QueryInit /\ [][QueryNext]_vars

(***************************************************************************)
(* Properties of generate_search_query                                     *)
(***************************************************************************)
\* a version of the function has been called and has returned
Built == qb_version # "none"

\* entities_by_type has no "PER" entry or an empty one
NoPerson ==
    \/ "PER" \notin DOMAIN qb_args.entities_by_type
    \/ qb_args.entities_by_type["PER"] = <<>>

\* C1: without a PER entry, or with an empty one, both queries are None,
\* whatever the other arguments and the services are
C1_NoSpeakerNoQueries ==
    (Built /\ NoPerson) => (qb_result.ko = None /\ qb_result.en = None)

\* an empty PER list in rollcall mode, with a date, keywords and a quote
C1_Witness ==
    /\ Built
    /\ "PER" \in DOMAIN qb_args.entities_by_type
    /\ qb_args.entities_by_type["PER"] = <<>>
    /\ qb_args.rollcall_mode
    /\ qb_args.article_date = Date_Valid
    /\ qb_args.keywords # <<>>
    /\ qb_args.quote_sentence = Ko_Quote
    /\ qb_result.ko = None
    /\ qb_result.en = None

\* the call went through the default mode
DefaultCall == Built /\ ~NoPerson /\ ~qb_args.rollcall_mode

\* C8 as stated: in default mode the English query is the joined list of its
\* parts, and no two parts are equal under _normalize_token, the translated
\* quote included
C8_PartsPairwiseDistinct ==
    DefaultCall =>
        LET parts == qb_result.parts_en
        IN  /\ qb_result.en = OrNone(Strip(JoinSpace(parts)))
            /\ \A i, j \in 1..Len(parts) :
                  i < j => _normalize_token(parts[i]) # _normalize_token(parts[j])

\* C8 as the code has it: the speaker, the location tokens and the keyword
\* tokens are deduplicated, the first of every non-empty normalized token
\* staying in its place; the translated quote, when it is not empty, is
\* added behind them as it is; the English query is these parts joined
C8_DedupedThenQuote ==
    DefaultCall =>
        LET c == Prepared(qb_version, qb_args)
            cand == <<c.speaker_en>> \o c.locs_en_tokens \o c.kws_en_tokens
            firsts == {i \in 1..Len(cand) :
                          /\ _normalize_token(cand[i]) # <<>>
                          /\ \A j \in 1..(i - 1) :
                                _normalize_token(cand[j]) # _normalize_token(cand[i])}
            quote == IF Truthy(c.quote_en_full) THEN <<c.quote_en_full>> ELSE <<>>
            parts == qb_result.parts_en
            n == Len(parts) - Len(quote)
        IN  /\ n = Cardinality(firsts)
            /\ \A k \in 1..n :
                  \E i \in firsts :
                      /\ parts[k] = cand[i]
                      /\ Cardinality({j \in firsts : j < i}) = k - 1
            /\ \A i, j \in 1..n :
                  i < j => _normalize_token(parts[i]) # _normalize_token(parts[j])
            /\ quote # <<>> => parts[Len(parts)] = quote[1]
            /\ qb_result.en = OrNone(Strip(JoinSpace(parts)))

\* the keyword's translation "seoul!" was dropped as a repetition of the
\* location "Seoul", and the quote's translation "SEOUL" was added
C8_Witness ==
    /\ DefaultCall
    /\ qb_args.env.translator = "variant"
    /\ PhrasesOf(qb_args.keywords) = <<Ko_Summit>>
    /\ qb_result.parts_en = <<En_Merkel, En_Seoul, Str_SEOUL>>
    /\ qb_result.en = <<"M", "e", "r", "k", "e", "l", " ", "S", "e", "o", "u", "l", " ", "S", "E", "O", "U", "L">>

\* the call went through rollcall mode with the date d
RollcallCallWith(d) ==
    /\ Built
    /\ ~NoPerson
    /\ qb_args.rollcall_mode
    /\ qb_args.article_date = d

\* d is written YYYY-MM-DD and names a day of the calendar
IsCalendarDate(d) == d # None /\ FullMatchIsoShape(d) /\ ParseIsoDate(d).ok

\* the month's name, DD, sep, YYYY of a date written YYYY-MM-DD
MonthDayYear(d, sep) ==
    MonthNames[NumberOf(SubSeq(d, 6, 7))] \o <<" ">> \o SubSeq(d, 9, 10) \o sep
    \o <<" ">> \o SubSeq(d, 1, 4)

\* s begins with p
StartsWith(s, p) == s # None /\ Len(s) >= Len(p) /\ SubSeq(s, 1, Len(p)) = p

\* C9 as stated: in rollcall mode a date YYYY-MM-DD stands in the English
\* query as "Month DD, YYYY" directly behind the speaker, and in the Korean
\* query unchanged directly behind the speaker
C9_DateWithComma ==
    \A d \in {Date_Valid} :
        RollcallCallWith(d) =>
            /\ StartsWith(qb_result.en,
                          qb_result.speaker_en \o <<" ">> \o MonthDayYear(d, <<",">>))
            /\ StartsWith(qb_result.ko,
                          qb_args.entities_by_type["PER"][1] \o <<" ">> \o d)

\* C9 as the code has it: the date stands in the English query as
\* "Month DD YYYY", without a comma, directly behind the speaker's English
\* name, or first when that name is empty; the Korean query has the date
\* unchanged directly behind the speaker
C9_DateWithoutComma ==
    \A d \in {Date_Valid, Date_NoSuchDay, Date_Short} :
        (RollcallCallWith(d) /\ IsCalendarDate(d)) =>
            LET k == IF qb_result.speaker_en # <<>> THEN 1 ELSE 0
                parts == qb_result.parts_en
            IN  /\ Len(parts) >= k + 1
                /\ k = 1 => parts[1] = qb_result.speaker_en
                /\ parts[k + 1] = MonthDayYear(d, <<>>)
                /\ qb_result.en = JoinSpace(parts)
                /\ "," \notin {parts[k + 1][i] : i \in 1..Len(parts[k + 1])}
                /\ StartsWith(qb_result.ko,
                              qb_args.entities_by_type["PER"][1] \o <<" ">> \o d)

\* 2024-11-29 came out as "November 29 2024" behind the speaker
C9_Witness ==
    /\ RollcallCallWith(Date_Valid)
    /\ qb_version = "qdd2"
    /\ qb_result.en = <<"M", "e", "r", "k", "e", "l", " ", "N", "o", "v", "e", "m", "b", "e", "r", " ", "2", "9", " ", "2", "0", "2", "4", " ", "S", "e", "o", "u", "l">>
    /\ qb_result.ko = Ko_Merkel \o <<" ">> \o Date_Valid \o <<" ">> \o Ko_Seoul

\* C10: in rollcall mode with a date each query is made of the speaker, the
\* date and at most one item more
C10_AtMostOneFurtherItem ==
    (Built /\ ~NoPerson /\ qb_args.rollcall_mode /\ Truthy(qb_args.article_date)) =>
        /\ Len(qb_result.parts_en) <= 3
        /\ Len(qb_result.parts_ko) <= 3
        /\ qb_result.en = OrNone(Strip(JoinSpace(qb_result.parts_en)))
        /\ qb_result.ko = OrNone(Strip(JoinSpace(qb_result.parts_ko)))

(***************************************************************************)
(* snippet_matcher.py and SearchService.find_best_match                    *)
(*                                                                         *)
(* A text is the sequence of its sentences, the pieces re.split and        *)
(* clean_text make of it; a sentence is an atom.  "Q" and "X" are two      *)
(* sentences of 20 characters or more, "z" is one of fewer than 20.  A     *)
(* similarity is a number of tenths.  An Optional[Dict] is a sequence of   *)
(* no or one record.                                                       *)
(***************************************************************************)
\* lines 20-35 with is_ko=False: the sentences of 20 characters or more
split_into_sentences(text) ==
    IF text = None THEN <<>> ELSE SelectSeq(text, LAMBDA s : s # "z")

\* the window around no sentence but the centre
extract_center_only(sentences, center_idx, num_before, num_after) ==
    [text |-> <<sentences[center_idx + 1]>>, start_idx |-> center_idx,
     end_idx |-> center_idx]

\* lines 38-48, with the indices of the code, from 0
extract_span(sentences, center_idx, num_before, num_after) ==
    LET start_idx == Max(0, center_idx - num_before)
        end_idx == IF center_idx + num_after < Len(sentences) - 1
                   THEN center_idx + num_after ELSE Len(sentences) - 1
    IN  [text |-> SubSeq(sentences, start_idx + 1, end_idx + 1),
         start_idx |-> start_idx, end_idx |-> end_idx]

\* lines 96-138: the sentence model and cos_sim on normalized embeddings are
\* outside the repository.  A text is as similar to itself as can be, 10;
\* for two texts the model is "graded" (twice the sentences in common over
\* the sentences of both) or "weak" (1 for any two different texts).
Similarity(model, a, b) ==
    LET A == {a[i] : i \in 1..Len(a)}
        B == {b[i] : i \in 1..Len(b)}
    IN  IF a = b THEN 10
        ELSE IF model = "weak" THEN 1
        ELSE (20 * Cardinality(A \cap B)) \div (Cardinality(A) + Cardinality(B))

\* lines 75-87: the span of the quote
QuoteSpan(quote_text, quote_sentences) ==
    IF quote_sentences # <<>>
    THEN extract_span(quote_sentences, Len(quote_sentences) \div 2, 1, 1).text
    ELSE quote_text

\* lines 106-162: the spans of the sentences, the first of the most similar
\* (torch.argmax), and the dict made of it; center_idx is kept beside
SpanResult(model, url, quote_span_text, sentences) ==
    LET sims == [c \in 1..Len(sentences) |->
                    Similarity(model, quote_span_text,
                               extract_span(sentences, c - 1, 1, 1).text)]
        best == CHOOSE c \in 1..Len(sentences) :
                    /\ \A d \in 1..Len(sentences) : sims[d] <= sims[c]
                    /\ \A d \in 1..(c - 1) : sims[d] < sims[c]
        span == extract_span(sentences, best - 1, 1, 1)
    IN  <<[url |-> url, best_sentence |-> sentences[best],
           best_score |-> sims[best], span_text |-> span.text,
           span_start_idx |-> span.start_idx, span_end_idx |-> span.end_idx,
           center_idx |-> best - 1]>>

\* lines 51-162; an exception of the model is caught and gives None
find_best_match_span_in_snippet(model, quote_text, snippet_text, url) ==
    IF ~Truthy(snippet_text) \/ split_into_sentences(snippet_text) = <<>>
       \/ model = "raises"
    THEN <<>>
    ELSE SpanResult(model, url,
                    QuoteSpan(quote_text, split_into_sentences(quote_text)),
                    split_into_sentences(snippet_text))

\* lines 184-210: global_candidates, from candidate k on; each entry keeps
\* the index of its candidate beside
RECURSIVE GlobalCandidates(_, _, _, _)
GlobalCandidates(model, quote_en, candidates, k) ==
    IF k > Len(candidates) THEN <<>>
    ELSE LET span_res == find_best_match_span_in_snippet(
                             model, quote_en, candidates[k].snippet,
                             candidates[k].url)
         IN  (IF candidates[k].url = <<>> THEN <<>>
              ELSE [i \in DOMAIN span_res |-> span_res[i] @@ [cand |-> k]])
             \o GlobalCandidates(model, quote_en, candidates, k + 1)

\* the list as it is
Unsorted(seq) == seq

\* lines 217-221: sorted(key=best_score, reverse=True), a stable sort
RECURSIVE SortedByBestScore(_)
SortedByBestScore(seq) ==
    IF seq = <<>> THEN <<>>
    ELSE LET front == SortedByBestScore(SubSeq(seq, 1, Len(seq) - 1))
             x == seq[Len(seq)]
             k == Cardinality({i \in 1..Len(front) :
                                  front[i].best_score >= x.best_score})
         IN  SubSeq(front, 1, k) \o <<x>> \o SubSeq(front, k + 1, Len(front))

\* lines 212-232: best_global and its "top_k_candidates"
BestGlobal(sorted_candidates) ==
    IF sorted_candidates = <<>> THEN <<>>
    ELSE <<[best_global |-> sorted_candidates[1],
            top_k_candidates |-> sorted_candidates]>>

\* lines 166-232; min_score is not read
find_best_span_from_candidates_debug(model, quote_en, candidates, min_score) ==
    BestGlobal(SortedByBestScore(GlobalCandidates(model, quote_en, candidates, 1)))

\* search_service.py lines 121-196.  The items are the candidates under the
\* keys link and snippet; a.translation is what translate_ko_to_en does with
\* the quote: it returns a.quote_en, returns the empty text, or raises.
find_best_match(a) ==
    LET quote_for_match_en ==
            IF a.translation = "ok" THEN a.quote_en ELSE a.query_en
        candidates == SelectSeq(a.candidates, LAMBDA it : it.url # <<>>)
    IN  IF a.candidates = <<>> \/ ~Truthy(quote_for_match_en) \/ candidates = <<>>
        THEN <<>>
        ELSE find_best_span_from_candidates_debug(
                 a.model, quote_for_match_en, candidates, a.min_score)

SpanInit ==
    /\ \E n \in 0..MaxSpanCandidates :
         sp_args \in
           [quote_en : {<<"Q">>, <<"z">>},
            candidates :
                [1..n -> [url : {<<>>, <<"u">>},
                          snippet : {<<>>, <<"Q">>, <<"X", "Q">>, <<"X", "Q", "X">>,
                                     <<"z", "Q">>, <<"X", "X">>}]],
            min_score : {0, 2},
            model : {"graded", "weak", "raises"},
            translation : {"ok", "empty", "raises"},
            query_en : {None, <<"X">>}]
    /\ sp_call = "none"
    /\ sp_result = <<>>
    /\ NormIdle /\ MergeIdle /\ RerankIdle /\ SearchIdle /\ DedupeIdle /\ QueryIdle
    /\ NameIdle
    /\ ContextIdle
    /\ CseIdle
    /\ EntityIdle
    /\ PipelineIdle

\* one call of find_best_span_from_candidates_debug
FindBestSpanFromCandidates ==
    /\ sp_call = "none"
    /\ sp_call' = "debug"
    /\ sp_result' = find_best_span_from_candidates_debug(
                        sp_args.model, sp_args.quote_en, sp_args.candidates,
                        sp_args.min_score)
    /\ UNCHANGED <<sp_args, normVars, mergeVars, rerankVars, searchVars,
                   dedupeVars, queryVars,
                   nameVars,
                   contextVars,
                   cseVars,
                   entityVars,
                   pipelineVars>>

\* one call of SearchService.find_best_match
FindBestMatch ==
    /\ sp_call = "none"
    /\ sp_call' = "service"
    /\ sp_result' = find_best_match(sp_args)
    /\ UNCHANGED <<sp_args, normVars, mergeVars, rerankVars, searchVars,
                   dedupeVars, queryVars,
                   nameVars,
                   contextVars,
                   cseVars,
                   entityVars,
                   pipelineVars>>

SpanNext == FindBestSpanFromCandidates \/ FindBestMatch

SpecSpan == SpanInit /\ [][SpanNext]_vars

(***************************************************************************)
(* Properties of span matching                                             *)
(***************************************************************************)
\* the ranked list of the result, empty when the result is None
Ranked == IF sp_result = <<>> THEN <<>> ELSE sp_result[1].top_k_candidates

\* the candidates a span is looked for in: those with a URL
Searched ==
    {k \in 1..Len(sp_args.candidates) : sp_args.candidates[k].url # <<>>}

\* C11 as stated: for a quote of one sentence and a snippet that holds this
\* sentence, the span found is centred on it and scores the similarity of a
\* text with itself
C11_IdenticalSentenceIsBest ==
    (sp_call = "debug" /\ sp_args.model # "raises") =>
        \A k \in Searched :
            LET snippet == sp_args.candidates[k].snippet
            IN  (\E i \in 1..Len(snippet) : <<snippet[i]>> = sp_args.quote_en) =>
                    \E n \in 1..Len(Ranked) :
                        /\ Ranked[n].cand = k
                        /\ <<Ranked[n].best_sentence>> = sp_args.quote_en
                        /\ Ranked[n].best_score = 10

\* C11 as the code has it: the sentences of 20 characters or more are kept;
\* every kept sentence stands for the window of itself and its kept
\* neighbours; the span found is the first window most similar to the quote.
\* It is the identical sentence with the score of a text with itself when
\* the kept sentences are this sentence alone.
C11_BestWindow ==
    (sp_call = "debug" /\ sp_args.model # "raises") =>
        \A k \in Searched :
            LET kept == SelectSeq(sp_args.candidates[k].snippet,
                                  LAMBDA x : x # "z")
                Window(c) ==
                    SubSeq(kept, IF c > 1 THEN c - 1 ELSE 1,
                           IF c < Len(kept) THEN c + 1 ELSE Len(kept))
                Score(c) == Similarity(sp_args.model, sp_args.quote_en, Window(c))
            IN  IF kept = <<>> THEN \A n \in 1..Len(Ranked) : Ranked[n].cand # k
                ELSE \E n \in 1..Len(Ranked) :
                        LET r == Ranked[n]
                            c == r.center_idx + 1
                        IN  /\ r.cand = k
                            /\ c \in 1..Len(kept)
                            /\ \A d \in 1..Len(kept) : Score(d) <= Score(c)
                            /\ \A d \in 1..(c - 1) : Score(d) < Score(c)
                            /\ r.best_score = Score(c)
                            /\ r.span_text = Window(c)
                            /\ r.best_sentence = kept[c]
                            /\ kept = sp_args.quote_en =>
                                  (r.best_score = 10 /\ <<r.best_sentence>> = kept)

\* the quote "Q" in the snippet "X Q": both windows are "X Q", and the span
\* found is centred on "X"
C11_Witness ==
    /\ sp_call = "debug"
    /\ sp_args.model = "graded"
    /\ sp_args.quote_en = <<"Q">>
    /\ Len(sp_args.candidates) = 1
    /\ sp_args.candidates[1].snippet = <<"X", "Q">>
    /\ Len(Ranked) = 1
    /\ Ranked[1].best_sentence = "X"
    /\ Ranked[1].span_text = <<"X", "Q">>
    /\ Ranked[1].best_score = 6

\* C18: the ranked list holds at most one span of a candidate, its scores do
\* not increase, the primary result is its first entry, and no span of the
\* list scores higher than the primary result
C18_PoolSortedPrimaryFirst ==
    sp_call = "debug" =>
        /\ \A i, j \in 1..Len(Ranked) :
              i # j => Ranked[i].cand # Ranked[j].cand
        /\ \A i \in 1..Len(Ranked) : Ranked[i].cand \in Searched
        /\ \A i \in 1..(Len(Ranked) - 1) :
              Ranked[i].best_score >= Ranked[i + 1].best_score
        /\ sp_result # <<>> =>
              /\ Ranked # <<>>
              /\ sp_result[1].best_global = Ranked[1]
              /\ \A i \in 1..Len(Ranked) :
                    Ranked[i].best_score <= sp_result[1].best_global.best_score

\* the span of the second candidate scores higher and comes first
C18_Witness ==
    /\ sp_call = "debug"
    /\ Len(Ranked) = 2
    /\ Ranked[1].cand = 2
    /\ Ranked[2].cand = 1
    /\ Ranked[1].best_score > Ranked[2].best_score
    /\ sp_result[1].best_global = Ranked[1]

\* C19: a primary span that is returned scores min_score or more
C19_PrimaryReachesThreshold ==
    (sp_call \in {"debug", "service"} /\ sp_result # <<>>) =>
        sp_result[1].best_global.best_score >= sp_args.min_score

(***************************************************************************)
(* app/name_resolution.py: one call of resolve_person_name_en with the     *)
(* answers of the name lookup and of the translator                        *)
(***************************************************************************)
\* What the search request of the lookup does: requests.get raises (a
\* network error or a timeout), the body is no JSON, or the JSON value is
\* null, an object without "search", one with an empty list, one with a hit
WikidataSearchOutcomes ==
    {"error", "timeout", "not_json", "null", "no_search", "empty", "hit"}

\* What the detail request does: it raises, the answer lacks the entity, or
\* its labels have an English value, an empty English value, a Korean label
\* only, or neither
WikidataDetailOutcomes ==
    {"error", "timeout", "no_entity", "en", "en_empty", "ko_only", "no_labels"}

\* lines 13-49: [raises, info]; the membership test of line 33 raises a
\* TypeError on null, outside of any try
get_wikidata_english_name(web, korean_name) ==
    LET Error == [raises |-> FALSE, info |-> [error |-> "error"]]
    IN  CASE web.search \in {"error", "timeout", "not_json"} -> Error
          [] web.search = "null" -> [raises |-> TRUE, info |-> <<>>]
          [] web.search \in {"no_search", "empty"} -> Error
          [] web.detail \in {"error", "timeout", "no_entity"} -> Error
          [] web.detail = "en" ->
                [raises |-> FALSE,
                 info |-> [ko |-> korean_name, en |-> En_Merkel, qid |-> "Q1"]]
          [] web.detail = "en_empty" ->
                [raises |-> FALSE,
                 info |-> [ko |-> korean_name, en |-> <<>>, qid |-> "Q1"]]
          [] web.detail = "ko_only" ->
                [raises |-> FALSE,
                 info |-> [ko |-> korean_name, en |-> None, qid |-> "Q1"]]
          [] OTHER -> Error

\* info.get("en") when it is truthy, the empty text otherwise (line 70)
InfoEn(info) ==
    IF "en" \in DOMAIN info /\ info.en # None THEN info.en ELSE <<>>

\* lines 52-77 as one call: [raises, value].  The lookup is called when the
\* lexicon has no key for the name, and what it raises leaves the function.
ResolveCall(web, translator, name_arg) ==
    LET name_ko == Strip(name_arg)
        in_lexicon == \E i \in 1..Len(PERSON_NAME_LEXICON) :
                         Contains(name_ko, PERSON_NAME_LEXICON[i].key)
        lookup == get_wikidata_english_name(web, name_ko)
    IN  IF ~in_lexicon /\ lookup.raises
        THEN [raises |-> TRUE, value |-> <<>>]
        ELSE [raises |-> FALSE,
              value |-> resolve_person_name_en(
                            [translator |-> translator,
                             wikidata_en |-> IF lookup.raises THEN <<>>
                                             ELSE InfoEn(lookup.info)],
                            name_arg)]

\* the names asked for: a key of the lexicon, a text that holds one, a name
\* the lexicon does not have, the same with blanks around it, the empty text
NameArguments ==
    {Ko_Trump, Ko_SummitWithTrump, Ko_Merkel, <<" ">> \o Ko_Merkel \o <<" ">>,
     <<>>}

NameInit ==
    /\ nm_args \in [name : NameArguments,
                    web : [search : WikidataSearchOutcomes,
                           detail : WikidataDetailOutcomes],
                    translator : TranslatorBehaviours]
    /\ nm_done = FALSE
    /\ nm_result = <<>>
    /\ NormIdle /\ MergeIdle /\ RerankIdle /\ SearchIdle /\ DedupeIdle /\ QueryIdle
    /\ SpanIdle
    /\ ContextIdle
    /\ CseIdle
    /\ EntityIdle
    /\ PipelineIdle

ResolvePersonName ==
    /\ ~nm_done
    /\ nm_done' = TRUE
    /\ nm_result' = ResolveCall(nm_args.web, nm_args.translator, nm_args.name)
    /\ UNCHANGED <<nm_args, normVars, mergeVars, rerankVars, searchVars,
                   dedupeVars, queryVars, spanVars,
                   contextVars,
                   cseVars,
                   entityVars,
                   pipelineVars>>

NameNext == ResolvePersonName

SpecName == NameInit /\ [][NameNext]_vars

\* C12: the call raises nothing and returns the value of the first stage
\* that succeeds: the lexicon entry of the name, the entry of the first key
\* the name holds, the English label of the lookup, the translation, the
\* name as it was given; a stage that raises or answers nothing has failed
C12_FirstSucceedingStage ==
    nm_done =>
        LET name == nm_args.name
            keys == {i \in 1..Len(PERSON_NAME_LEXICON) :
                        Contains(Strip(name), PERSON_NAME_LEXICON[i].key)}
            label_found == nm_args.web.search = "hit" /\ nm_args.web.detail = "en"
            t == translate_ko_to_en([translator |-> nm_args.translator], Strip(name))
        IN  /\ ~nm_result.raises
            /\ nm_result.value =
                 IF keys # {}
                 THEN PERSON_NAME_LEXICON[CHOOSE i \in keys : \A j \in keys : i <= j].val
                 ELSE IF label_found THEN En_Merkel
                 ELSE IF ~t.raises /\ t.text # <<>> THEN t.text
                 ELSE Strip(name)

(***************************************************************************)
(* Properties of one search session                                        *)
(***************************************************************************)
\* C13: the list a search returns holds no URL twice, whichever backend
\* the list comes from
C13_UrlsUnique ==
    ss_pc = "done" =>
        \A i, j \in 1..Len(ss_search_items) :
            i # j => ss_search_items[i].link # ss_search_items[j].link

(***************************************************************************)
(* app/trump_utils.py and the classifier of quote_backend/api/main.py      *)
(***************************************************************************)
Ko_Donald == <<"do", "neol", "deu">>
Str_white_house == <<"w", "h", "i", "t", "e", " ", "h", "o", "u", "s", "e">>

\* trump_utils.py lines 6-13, main.py lines 798-805
TRUMP_NAME_VARIANTS ==
    <<Ko_Trump,
      Ko_Donald \o <<" ">> \o Ko_Trump,
      Ko_Donald \o <<" ", "J", " ">> \o Ko_Trump,
      <<"d", "o", "n", "a", "l", "d", " ", "t", "r", "u", "m", "p">>,
      <<"d", "o", "n", "a", "l", "d", " ", "j", ".", " ", "t", "r", "u", "m", "p">>,
      <<"p", "r", "e", "s", "i", "d", "e", "n", "t", " ", "t", "r", "u", "m", "p">>>>

\* lines 20-38, main.py lines 808-817: persons under PER, then PERSON
contains_trump_entity(pipeline_result) ==
    LET entities_by_type == pipeline_result.entities_by_type
        persons == entities_by_type.PER \o entities_by_type.PERSON
    IN  \E i \in 1..Len(persons) : \E v \in 1..Len(TRUMP_NAME_VARIANTS) :
            Contains(Lower(persons[i]), Lower(TRUMP_NAME_VARIANTS[v]))

\* lines 41-55
is_trump_like_text(text) ==
    IF text = None \/ text = <<>> THEN FALSE
    ELSE \/ Contains(text, Ko_Trump)
         \/ Contains(text, Ko_Donald \o <<" ">> \o Ko_Trump)
         \/ Contains(Lower(text), <<"d", "o", "n", "a", "l", "d", " ", "t", "r", "u", "m", "p">>)
         \/ Contains(Lower(text), <<"p", "r", "e", "s", "i", "d", "e", "n", "t", " ", "t", "r", "u", "m", "p">>)
         \/ Contains(Lower(text), Str_trump)

\* lines 58-65
contains_whitehouse_cue(text) ==
    IF text = None \/ text = <<>> THEN FALSE
    ELSE Contains(text, Ko_WhiteHouse) \/ Contains(Lower(text), Str_white_house)

\* lines 68-91
detect_trump_context(article_text, quote_text, pipeline_result) ==
    \/ contains_trump_entity(pipeline_result)
    \/ is_trump_like_text(article_text)
    \/ is_trump_like_text(quote_text)
    \/ contains_whitehouse_cue(article_text)
    \/ contains_whitehouse_cue(quote_text)

\* main.py lines 791-834
_check_trump_context(pipeline_result, text, quote) ==
    LET text_lower == Lower(text)
        quote_text == IF quote = None THEN <<>> ELSE quote
        quote_lower == Lower(quote_text)
    IN  \/ contains_trump_entity(pipeline_result)
        \/ Contains(quote_text, Ko_Trump)
        \/ Contains(quote_text, Ko_Donald \o <<" ">> \o Ko_Trump)
        \/ Contains(quote_lower, Str_trump)
        \/ Contains(text, Ko_Trump)
        \/ Contains(text_lower, <<"d", "o", "n", "a", "l", "d", " ", "t", "r", "u", "m", "p">>)
        \/ Contains(text_lower, <<"p", "r", "e", "s", "i", "d", "e", "n", "t", " ", "t", "r", "u", "m", "p">>)

\* texts with and without a name variant or a cue
ContextTexts ==
    {Ko_Summit,
     Ko_Donald \o <<" ", "J", " ">> \o Ko_Trump \o <<" ">> \o Ko_Summit,
     <<"d", "o", "n", "a", "l", "d", " ", "j", ".", " ", "t", "r", "u", "m", "p">> \o <<" ">> \o Ko_Summit,
     <<"T", "r", "u", "m", "p">>,
     <<"P", "r", "e", "s", "i", "d", "e", "n", "t", " ", "T", "r", "u", "m", "p">>,
     Ko_WhiteHouse \o <<" ">> \o Ko_Summit,
     <<"W", "h", "i", "t", "e", " ", "H", "o", "u", "s", "e">>,
     Str_white_house}

ContextInit ==
    /\ cx_args \in [article_text : ContextTexts,
                    quote_text : {None, <<>>} \cup ContextTexts,
                    pipeline_result :
                        [entities_by_type :
                            [PER : {<<>>, <<Ko_Merkel>>, <<Ko_Merkel, En_DonaldTrump>>},
                             PERSON : {<<>>, <<<<"P", "R", "E", "S", "I", "D", "E", "N", "T", " ", "T", "R", "U", "M", "P">>>>}]]]
    /\ cx_call = "none"
    /\ cx_result = FALSE
    /\ NormIdle /\ MergeIdle /\ RerankIdle /\ SearchIdle /\ DedupeIdle
    /\ QueryIdle /\ SpanIdle /\ NameIdle
    /\ CseIdle
    /\ EntityIdle
    /\ PipelineIdle

DetectTrumpContext ==
    /\ cx_call = "none"
    /\ cx_call' = "cli"
    /\ cx_result' = detect_trump_context(cx_args.article_text, cx_args.quote_text,
                                         cx_args.pipeline_result)
    /\ UNCHANGED <<cx_args, normVars, mergeVars, rerankVars, searchVars,
                   dedupeVars, queryVars, spanVars, nameVars,
                   cseVars,
                   entityVars,
                   pipelineVars>>

CheckTrumpContext ==
    /\ cx_call = "none"
    /\ cx_call' = "api"
    /\ cx_result' = _check_trump_context(cx_args.pipeline_result,
                                         cx_args.article_text, cx_args.quote_text)
    /\ UNCHANGED <<cx_args, normVars, mergeVars, rerankVars, searchVars,
                   dedupeVars, queryVars, spanVars, nameVars,
                   cseVars,
                   entityVars,
                   pipelineVars>>

ContextNext == DetectTrumpContext \/ CheckTrumpContext

SpecContext == ContextInit /\ [][ContextNext]_vars

\* a person entity holds a name variant, letter case apart
EntityHasVariant ==
    LET persons == cx_args.pipeline_result.entities_by_type.PER
                   \o cx_args.pipeline_result.entities_by_type.PERSON
    IN  \E i \in 1..Len(persons) : \E v \in 1..Len(TRUMP_NAME_VARIANTS) :
            Contains(Lower(persons[i]), Lower(TRUMP_NAME_VARIANTS[v]))

\* the text holds a name variant as it is written in the list
TextHasVariant(text) ==
    text # None /\ \E v \in 1..Len(TRUMP_NAME_VARIANTS) :
                      Contains(text, TRUMP_NAME_VARIANTS[v])

\* the text holds the cue term in Korean or, as written, in English
TextHasCue(text) ==
    text # None /\ (Contains(text, Ko_WhiteHouse) \/ Contains(text, Str_white_house))

\* C14: either classifier answers true when a person entity holds a name
\* variant, when the article or the quote holds one, or when the article or
\* the quote holds the cue term
C14_ClassifierTrueOnAnyCue ==
    (cx_call # "none"
     /\ (\/ EntityHasVariant
         \/ TextHasVariant(cx_args.article_text)
         \/ TextHasVariant(cx_args.quote_text)
         \/ TextHasCue(cx_args.article_text)
         \/ TextHasCue(cx_args.quote_text)))
    => cx_result

(***************************************************************************)
(* app/search_client.py: collect_candidates_google_cse, one HTTP attempt   *)
(* of google_cse_search at a time                                          *)
(***************************************************************************)
MaxDomains == 2
MaxPageItems == 2
MaxPages == 2

\* line 44: the attempts of one request
retries == 3

\* the result items of one page: the link (or formattedUrl), empty when the
\* item has neither, and what is_valid_page answers for it
CseItems ==
    {[link |-> "", valid |-> TRUE]} \cup [link : Urls, valid : {TRUE}]
    \cup {[link |-> "https://whitehouse.gov/2", valid |-> FALSE]}

\* lines 135-154: the items of one page, one after the other
RECURSIVE ProcessItems(_, _, _, _, _)
ProcessItems(items, domain, remaining, candidates, seen) ==
    IF items = <<>>
    THEN [candidates |-> candidates, seen |-> seen, remaining |-> remaining]
    ELSE LET it == Head(items)
         IN  IF it.link = "" \/ it.link \in seen \/ ~it.valid
             THEN ProcessItems(Tail(items), domain, remaining, candidates, seen)
             ELSE IF remaining - 1 = 0
             THEN [candidates |-> Append(candidates, [domain |-> domain, url |-> it.link]),
                   seen |-> seen \cup {it.link}, remaining |-> 0]
             ELSE ProcessItems(Tail(items), domain, remaining - 1,
                               Append(candidates, [domain |-> domain, url |-> it.link]),
                               seen \cup {it.link})

\* lines 114-117 and 160: the next domain of the list, or the return
NextDomain(loop) ==
    IF loop.domain < cs_args.domains
    THEN /\ cs_pc' = "request"
         /\ cs_loop' = [domain |-> loop.domain + 1,
                        remaining |-> cs_args.top_per_domain,
                        start |-> 1, attempt |-> 0, page |-> 1]
    ELSE /\ cs_pc' = "done"
         /\ cs_loop' = loop

\* cs_requests lists the requests finished, with the way each one ended and,
\* for a request that failed, the attempts it took
\* cs_args.api is the behaviour of the search API during the call
CseInit ==
    /\ cs_args \in [top_per_domain : 1..2, domains : 1..MaxDomains,
                    configured : BOOLEAN, api : {"short"}]
    /\ cs_pc = "request"
    /\ cs_loop = [domain |-> 1, remaining |-> cs_args.top_per_domain,
                  start |-> 1, attempt |-> 0, page |-> 1]
    /\ cs_candidates = <<>>
    /\ cs_seen = {}
    /\ cs_requests = <<>>
    /\ NormIdle /\ MergeIdle /\ RerankIdle /\ SearchIdle /\ DedupeIdle
    /\ QueryIdle /\ SpanIdle /\ NameIdle /\ ContextIdle
    /\ EntityIdle
    /\ PipelineIdle

\* lines 47-55: a request without the credentials fails its assertion
CseNotConfigured ==
    /\ cs_pc = "request"
    /\ ~cs_args.configured
    /\ cs_pc' = "raised"
    /\ cs_requests' = Append(cs_requests, [domain |-> cs_loop.domain,
                                           outcome |-> "AssertionError"])
    /\ UNCHANGED <<cs_args, cs_loop, cs_candidates, cs_seen, normVars, mergeVars, rerankVars,
                   searchVars, dedupeVars, queryVars,
                   spanVars, nameVars, contextVars,
                   entityVars,
                   pipelineVars>>

\* an attempt that gives up after the first failure and lets it out
CseAttemptFailsOnce ==
    /\ cs_pc = "request"
    /\ cs_args.configured
    /\ cs_pc' = "raised"
    /\ cs_requests' = Append(cs_requests, [domain |-> cs_loop.domain,
                                           attempts |-> cs_loop.attempt + 1,
                                           outcome |-> "failed"])
    /\ UNCHANGED <<cs_args, cs_loop, cs_candidates, cs_seen, normVars, mergeVars, rerankVars,
                   searchVars, dedupeVars, queryVars,
                   spanVars, nameVars, contextVars,
                   entityVars,
                   pipelineVars>>

\* lines 73-91: an attempt answers 429, 500, 502, 503 or 504, or another
\* status that raise_for_status turns into a RequestException, or the request
\* raises one; after the last attempt the request returns no items and the
\* domain is left (lines 130-132)
CseAttemptFails ==
    /\ cs_pc = "request"
    /\ cs_args.configured
    /\ IF cs_loop.attempt + 1 < retries
       THEN /\ cs_loop' = [cs_loop EXCEPT !.attempt = @ + 1]
            /\ UNCHANGED <<cs_pc, cs_requests>>
       ELSE /\ cs_requests' = Append(cs_requests,
                                     [domain |-> cs_loop.domain,
                                      attempts |-> cs_loop.attempt + 1,
                                      outcome |-> "failed"])
            /\ NextDomain(cs_loop)
    /\ UNCHANGED <<cs_args, cs_candidates, cs_seen, normVars, mergeVars, rerankVars,
                   searchVars, dedupeVars, queryVars,
                   spanVars, nameVars, contextVars,
                   entityVars,
                   pipelineVars>>

\* line 79 on a body that is no JSON: the decoder's error is a
\* RequestException in some versions of requests, and the attempt is one of
\* CseAttemptFails; in the others it is a ValueError that leaves the call
CseAttemptNotJson ==
    /\ cs_pc = "request"
    /\ cs_args.configured
    /\ cs_pc' = "raised"
    /\ cs_requests' = Append(cs_requests, [domain |-> cs_loop.domain,
                                           outcome |-> "ValueError"])
    /\ UNCHANGED <<cs_args, cs_loop, cs_candidates, cs_seen, normVars, mergeVars, rerankVars,
                   searchVars, dedupeVars, queryVars,
                   spanVars, nameVars, contextVars,
                   entityVars,
                   pipelineVars>>

\* the pages the API with endless results answers with: one item that is
\* no valid page, or one that is
EndlessPages ==
    {<<[link |-> "https://whitehouse.gov/2", valid |-> FALSE]>>,
     <<[link |-> "https://rollcall.com/transcript/1", valid |-> TRUE]>>}

\* a page loop that asks for the same page again
CseAttemptReturnsSameStart ==
    /\ cs_pc = "request"
    /\ cs_args.configured
    /\ \E n \in 0..MaxPageItems : \E items \in [1..n -> CseItems] :
         LET per_req == IF cs_loop.remaining < 10 THEN cs_loop.remaining ELSE 10
             done == ProcessItems(items, cs_loop.domain, cs_loop.remaining,
                                  cs_candidates, cs_seen)
             start == cs_loop.start
         IN  /\ IF cs_args.api = "short" THEN cs_loop.page > MaxPages => n = 0
                ELSE items \in EndlessPages
             /\ cs_requests' = Append(cs_requests,
                                      [domain |-> cs_loop.domain,
                                       outcome |-> IF n = 0 THEN "empty" ELSE "items"])
             /\ cs_candidates' = done.candidates
             /\ cs_seen' = done.seen
             /\ IF n = 0 \/ start > 91 \/ done.remaining = 0
                THEN NextDomain(cs_loop)
                ELSE /\ cs_pc' = "request"
                     /\ cs_loop' = [cs_loop EXCEPT !.remaining = done.remaining,
                                                   !.start = start,
                                                   !.attempt = 0,
                                                   !.page = @ + 1]
    /\ UNCHANGED <<cs_args, normVars, mergeVars, rerankVars,
                   searchVars, dedupeVars, queryVars,
                   spanVars, nameVars, contextVars,
                   entityVars,
                   pipelineVars>>

\* lines 78-79 and 130-157: an attempt answers 200 with a page of items.  An
\* API with few results has no items after the last page of the model; one
\* with endless results answers every request with a page of EndlessPages
CseAttemptReturns ==
    /\ cs_pc = "request"
    /\ cs_args.configured
    /\ \E n \in 0..MaxPageItems : \E items \in [1..n -> CseItems] :
         LET per_req == IF cs_loop.remaining < 10 THEN cs_loop.remaining ELSE 10
             done == ProcessItems(items, cs_loop.domain, cs_loop.remaining,
                                  cs_candidates, cs_seen)
             start == cs_loop.start + per_req
         IN  /\ IF cs_args.api = "short" THEN cs_loop.page > MaxPages => n = 0
                ELSE items \in EndlessPages
             /\ cs_requests' = Append(cs_requests,
                                      [domain |-> cs_loop.domain,
                                       outcome |-> IF n = 0 THEN "empty" ELSE "items"])
             /\ cs_candidates' = done.candidates
             /\ cs_seen' = done.seen
             /\ IF n = 0 \/ start > 91 \/ done.remaining = 0
                THEN NextDomain(cs_loop)
                ELSE /\ cs_pc' = "request"
                     /\ cs_loop' = [cs_loop EXCEPT !.remaining = done.remaining,
                                                   !.start = start,
                                                   !.attempt = 0,
                                                   !.page = @ + 1]
    /\ UNCHANGED <<cs_args, normVars, mergeVars, rerankVars,
                   searchVars, dedupeVars, queryVars,
                   spanVars, nameVars, contextVars,
                   entityVars,
                   pipelineVars>>

CseNext ==
    CseNotConfigured \/ CseAttemptFails \/ CseAttemptNotJson \/ CseAttemptReturns

SpecCse == CseInit /\ [][CseNext]_vars

\* C15: no request is at an attempt beyond the budget; a request all of
\* whose attempts failed took no more attempts than the budget, nothing was
\* raised by it, the domain has no candidate when
\* this was its first request, and the next domain of the list is requested
\* after it
C15_TransientFailureSkipsDomain ==
    /\ cs_pc = "request" => cs_loop.attempt < retries
    /\ \A i \in 1..Len(cs_requests) :
        cs_requests[i].outcome = "failed" =>
            LET d == cs_requests[i].domain
            IN  /\ cs_requests[i].attempts <= retries
                /\ (i = Len(cs_requests) => cs_pc # "raised")
                /\ (\A j \in 1..(i - 1) : cs_requests[j].domain # d) =>
                       \A k \in 1..Len(cs_candidates) : cs_candidates[k].domain # d
                /\ d < cs_args.domains =>
                       IF i < Len(cs_requests) THEN cs_requests[i + 1].domain = d + 1
                       ELSE cs_pc = "request" /\ cs_loop.domain = d + 1
                /\ (d = cs_args.domains /\ i = Len(cs_requests)) => cs_pc = "done"

\* every attempt for the first of two domains failed, and the second domain
\* gave a candidate
C15_Witness ==
    /\ cs_pc = "done"
    /\ cs_args.domains = 2
    /\ Len(cs_requests) = 2
    /\ cs_requests[1] = [domain |-> 1, attempts |-> retries, outcome |-> "failed"]
    /\ cs_requests[2].outcome = "items"
    /\ Len(cs_candidates) = 1
    /\ cs_candidates[1].domain = 2

(***************************************************************************)
(* app/keywords.py lines 86-109 (quote_backend/core/keywords.py lines      *)
(* 108-131 are the same): entities_by_type, one entity at a time           *)
(***************************************************************************)
MaxEntities == 3

\* a is inside b and is not b: "a in b and a != b"
ProperlyInside(a, b) == a # b /\ Contains(b, a)

\* the pruning of lines 98-101
PrunedOf(by_type, seen) ==
    [lbl \in DOMAIN by_type |->
        SelectSeq(by_type[lbl], LAMBDA w : normalize_korean_phrase(w) # seen)]

\* lines 93-101: the loop over list(seen_normalized), which has the order
\* of the set's iteration; [is_duplicate, seen_normalized, entities_by_type]
RECURSIVE SeenLoop(_, _, _, _)
SeenLoop(order, normalized, seen_normalized, by_type) ==
    IF order = <<>>
    THEN [is_duplicate |-> FALSE, seen_normalized |-> seen_normalized,
          entities_by_type |-> by_type]
    ELSE LET seen == Head(order)
         IN  IF ProperlyInside(normalized, seen)
             THEN [is_duplicate |-> TRUE, seen_normalized |-> seen_normalized,
                   entities_by_type |-> by_type]
             ELSE IF ProperlyInside(seen, normalized)
             THEN SeenLoop(Tail(order), normalized, seen_normalized \ {seen},
                           PrunedOf(by_type, seen))
             ELSE SeenLoop(Tail(order), normalized, seen_normalized, by_type)

\* lines 103-107
Appended(done, label, word, normalized) ==
    LET by_type == IF label \in DOMAIN done.entities_by_type
                   THEN done.entities_by_type
                   ELSE done.entities_by_type @@ (label :> <<>>)
    IN  IF done.is_duplicate THEN done
        ELSE [is_duplicate |-> FALSE,
              seen_normalized |-> done.seen_normalized \cup {normalized},
              entities_by_type |->
                  IF \E i \in 1..Len(by_type[label]) : by_type[label][i] = word
                  THEN by_type
                  ELSE [by_type EXCEPT ![label] = Append(@, word)]]

\* the words of the entities: spellings of one normalized form, and forms
\* that lie inside one another
EntityWords ==
    {<<"a">>, <<"A">>, <<"a", "b">>, <<"a", "_", "b">>, <<"a", "b", "c">>}

EntityInit ==
    /\ \E n \in 0..MaxEntities :
          en_entities \in [1..n -> [label : {"PER", "LOC"}, word : EntityWords]]
    /\ en_pos = 0
    /\ en_seen = {}
    /\ en_by_type = <<>>
    /\ NormIdle /\ MergeIdle /\ RerankIdle /\ SearchIdle /\ DedupeIdle
    /\ QueryIdle /\ SpanIdle /\ NameIdle /\ ContextIdle /\ CseIdle
    /\ PipelineIdle

\* lines 88-107 for the next entity
AddEntity ==
    /\ en_pos < Len(en_entities)
    /\ en_pos' = en_pos + 1
    /\ LET ent == en_entities[en_pos + 1]
           normalized == normalize_korean_phrase(ent.word)
           n == Cardinality(en_seen)
       IN  \E order \in [1..n -> en_seen] :
              /\ \A i, j \in 1..n : i # j => order[i] # order[j]
              /\ LET done == Appended(SeenLoop(order, normalized, en_seen, en_by_type),
                                      ent.label, ent.word, normalized)
                 IN  /\ en_seen' = done.seen_normalized
                     /\ en_by_type' = done.entities_by_type
    /\ UNCHANGED <<en_entities, normVars, mergeVars, rerankVars, searchVars,
                   dedupeVars, queryVars, spanVars, nameVars,
                   contextVars, cseVars,
                   pipelineVars>>

EntityNext == AddEntity

SpecEntity == EntityInit /\ [][EntityNext]_vars

\* C16: when all entities are handled, no list of entities_by_type holds,
\* at two places, words of which one's normalized form is inside the
\* other's or equal to it
C16_NoNormalizedSubstrings ==
    en_pos = Len(en_entities) =>
        \A lbl \in DOMAIN en_by_type :
            \A i, j \in 1..Len(en_by_type[lbl]) :
                i # j => ~Contains(normalize_korean_phrase(en_by_type[lbl][i]),
                                   normalize_korean_phrase(en_by_type[lbl][j]))

(***************************************************************************)
(* The order of the backends in SearchService.search                       *)
(***************************************************************************)
\* the query holds "trump" in any letter case, or the Korean spelling
QueryHasHint ==
    Contains(Lower(ss_query), Str_trump) \/ Contains(ss_query, Str_teureompeu)

C20_ScoreIsWeightedSum ==
    rr_calls >= 1 =>
        \A k \in 1..Len(rr_out) :
            LET candidate == rr_keywords[rr_out[k].idx]
                normalized == normalize_korean_phrase(candidate.phrase)
                entity_forms == {normalize_korean_phrase(rr_entities[i].word) :
                                    i \in 1..Len(rr_entities)} \ {<<>>}
                relation_forms == {normalize_korean_phrase(r) :
                                      r \in RELATION_KEYWORDS} \ {<<>>}
                with_entity == \E e \in entity_forms : Contains(normalized, e)
                with_relation == \E r \in relation_forms : Contains(normalized, r)
                bonus == CASE with_entity /\ with_relation -> 10
                           [] with_entity # with_relation -> 6
                           [] OTHER -> 0
            IN  /\ rr_out[k].phrase = candidate.phrase
                /\ rr_out[k].score = alpha * candidate.score + beta * bonus

\* three candidates of score 1: one with an entity and a relation term, one
\* with the entity only, one with neither
C20_Witness ==
    /\ rr_calls >= 1
    /\ rr_entities # <<>>
    /\ rr_keywords = <<[phrase |-> <<"a">>, score |-> 1],
                       [phrase |-> <<"teu">>, score |-> 1],
                       [phrase |-> <<"teu", " ", "hoe", "dam">>, score |-> 1]>>
    /\ Len(rr_out) = 3
    /\ rr_out[1].score = 37
    /\ rr_out[2].score = 25
    /\ rr_out[3].score = 7

(***************************************************************************)
(* Two invocations of the pipeline in one process, their steps interleaved *)
(* in any order: extract_keywords_with_ner builds its index, then          *)
(* collect_candidates_google_cse requests its pages, then                  *)
(* find_best_span_from_candidates_debug pools the spans.  The variables of *)
(* the three functions are locals of the call.  search_client.SESSION is   *)
(* one requests.Session of the module (lines 19-20): every request of      *)
(* lines 25 and 75 sends the cookies it holds and stores those it gets.    *)
(* The backends answer a request by what is asked, whoever asks.           *)
(***************************************************************************)
Invocations == {1, 2}

\* the snippet the search API gives for a URL
SnippetOf(url) ==
    IF url = "https://whitehouse.gov/2" THEN <<"Q">> ELSE <<"X", "Q">>

\* what an invocation is given: the entities of its article, the pages the
\* search API answers to its query, its quote
PipelineInputs ==
    {[entities |-> <<[label |-> "PER", word |-> <<"a">>],
                      [label |-> "PER", word |-> <<"a", "b">>]>>,
      pages |-> <<<<[link |-> "https://rollcall.com/transcript/1", valid |-> TRUE],
                    [link |-> "https://whitehouse.gov/2", valid |-> TRUE]>>>>,
      quote_en |-> <<"Q">>],
     [entities |-> <<[label |-> "LOC", word |-> <<"A">>],
                      [label |-> "PER", word |-> <<"a">>]>>,
      pages |-> <<<<[link |-> "https://whitehouse.gov/2", valid |-> FALSE],
                    [link |-> "https://rollcall.com/transcript/1", valid |-> TRUE]>>,
                  <<[link |-> "https://rollcall.com/transcript/1", valid |-> TRUE],
                    [link |-> "https://whitehouse.gov/2", valid |-> TRUE]>>>>,
      quote_en |-> <<"Q">>],
     [entities |-> <<>>, pages |-> <<>>, quote_en |-> <<"z">>]}

\* the page the API answers at the k-th request: none after the last
PageOf(input, k) == IF k <= Len(input.pages) THEN input.pages[k] ELSE <<>>

\* keywords.py lines 88-107 for one entity, seen_normalized taken in one
\* order of its iteration
IndexedWith(order, ent, seen_normalized, by_type) ==
    Appended(SeenLoop(order, normalize_korean_phrase(ent.word), seen_normalized,
                      by_type),
             ent.label, ent.word, normalize_korean_phrase(ent.word))

\* the candidates as snippet_matcher gets them
SpanCandidates(candidates) ==
    [i \in 1..Len(candidates) |->
        [url |-> <<candidates[i].url>>, snippet |-> SnippetOf(candidates[i].url)]]

PipelineStart(input) ==
    [pc |-> "index", pos |-> 0, seen_normalized |-> {}, entities_by_type |-> <<>>,
     page |-> 1, remaining |-> 2, seen |-> {}, candidates |-> <<>>,
     best |-> <<>>]

PipelineInit ==
    /\ pl_input \in [Invocations -> PipelineInputs]
    /\ pl_local = [p \in Invocations |-> PipelineStart(pl_input[p])]
    /\ pl_session = {}
    /\ pl_foreign = FALSE
    /\ NormIdle /\ MergeIdle /\ RerankIdle /\ SearchIdle /\ DedupeIdle
    /\ QueryIdle /\ SpanIdle /\ NameIdle /\ ContextIdle /\ CseIdle
    /\ EntityIdle

\* keywords.py lines 86-109: the next entity of invocation p
PipelineIndex(p) ==
    /\ pl_local[p].pc = "index"
    /\ LET me == pl_local[p]
           n == Cardinality(me.seen_normalized)
       IN  IF me.pos = Len(pl_input[p].entities)
           THEN pl_local' = [pl_local EXCEPT ![p].pc = "collect"]
           ELSE \E order \in [1..n -> me.seen_normalized] :
                   /\ \A i, j \in 1..n : i # j => order[i] # order[j]
                   /\ LET done == IndexedWith(order, pl_input[p].entities[me.pos + 1],
                                              me.seen_normalized, me.entities_by_type)
                      IN  pl_local' =
                            [pl_local EXCEPT
                                ![p].pos = me.pos + 1,
                                ![p].seen_normalized = done.seen_normalized,
                                ![p].entities_by_type = done.entities_by_type]
    /\ UNCHANGED <<pl_input, pl_session, pl_foreign, normVars, mergeVars, rerankVars, searchVars,
                   dedupeVars, queryVars, spanVars, nameVars,
                   contextVars, cseVars, entityVars>>

\* the page request of an invocation whose set of seen URLs is one set of
\* the module
PipelineCollectSharedSeen(p) ==
    /\ pl_local[p].pc = "collect"
    /\ LET me == pl_local[p]
           items == PageOf(pl_input[p], me.page)
           done == ProcessItems(items, 1, me.remaining, me.candidates,
                                UNION {pl_local[q].seen : q \in Invocations})
       IN  /\ pl_local' =
                [pl_local EXCEPT
                    ![p].candidates = done.candidates,
                    ![p].seen = done.seen,
                    ![p].remaining = done.remaining,
                    ![p].page = me.page + 1,
                    ![p].pc = IF items = <<>> \/ done.remaining = 0
                              THEN "spans" ELSE "collect"]
           /\ pl_foreign' = (pl_foreign \/ pl_session \ {p} # {})
           /\ \E stored \in BOOLEAN :
                 pl_session' = IF stored THEN pl_session \cup {p} ELSE pl_session
    /\ UNCHANGED <<pl_input, normVars, mergeVars, rerankVars, searchVars,
                   dedupeVars, queryVars, spanVars, nameVars,
                   contextVars, cseVars, entityVars>>

\* search_client.py lines 118-157: one page request of invocation p and the
\* page validations of its items, all through SESSION
PipelineCollect(p) ==
    /\ pl_local[p].pc = "collect"
    /\ LET me == pl_local[p]
           items == PageOf(pl_input[p], me.page)
           done == ProcessItems(items, 1, me.remaining, me.candidates, me.seen)
       IN  /\ pl_local' =
                [pl_local EXCEPT
                    ![p].candidates = done.candidates,
                    ![p].seen = done.seen,
                    ![p].remaining = done.remaining,
                    ![p].page = me.page + 1,
                    ![p].pc = IF items = <<>> \/ done.remaining = 0
                              THEN "spans" ELSE "collect"]
           /\ pl_foreign' = (pl_foreign \/ pl_session \ {p} # {})
           /\ \E stored \in BOOLEAN :
                 pl_session' = IF stored THEN pl_session \cup {p} ELSE pl_session
    /\ UNCHANGED <<pl_input, normVars, mergeVars, rerankVars, searchVars,
                   dedupeVars, queryVars, spanVars, nameVars,
                   contextVars, cseVars, entityVars>>

\* snippet_matcher.py lines 166-232 for the candidates of invocation p
PipelineSpans(p) ==
    /\ pl_local[p].pc = "spans"
    /\ pl_local' =
         [pl_local EXCEPT
             ![p].pc = "done",
             ![p].best = find_best_span_from_candidates_debug(
                             "graded", pl_input[p].quote_en,
                             SpanCandidates(pl_local[p].candidates), 0)]
    /\ UNCHANGED <<pl_input, pl_session, pl_foreign, normVars, mergeVars, rerankVars, searchVars,
                   dedupeVars, queryVars, spanVars, nameVars,
                   contextVars, cseVars, entityVars>>

PipelineNext ==
    \E p \in Invocations : PipelineIndex(p) \/ PipelineCollect(p) \/ PipelineSpans(p)

SpecPipeline == PipelineInit /\ [][PipelineNext]_vars

\* entities_by_type of an invocation that runs alone
RECURSIVE IndexAlone(_, _, _, _)
IndexAlone(entities, k, seen_normalized, by_type) ==
    IF k > Len(entities) THEN by_type
    ELSE LET n == Cardinality(seen_normalized)
             order == CHOOSE o \in [1..n -> seen_normalized] :
                         \A i, j \in 1..n : i # j => o[i] # o[j]
             done == IndexedWith(order, entities[k], seen_normalized, by_type)
         IN  IndexAlone(entities, k + 1, done.seen_normalized, done.entities_by_type)

\* the candidates of an invocation that runs alone
RECURSIVE CollectAlone(_, _, _, _, _)
CollectAlone(input, page, remaining, candidates, seen) ==
    LET items == PageOf(input, page)
        done == ProcessItems(items, 1, remaining, candidates, seen)
    IN  IF items = <<>> \/ done.remaining = 0 THEN done.candidates
        ELSE CollectAlone(input, page + 1, done.remaining, done.candidates, done.seen)

\* what an invocation returns when it runs alone
OutputsAlone(input) ==
    [entities_by_type |-> IndexAlone(input.entities, 1, {}, <<>>),
     candidates |-> CollectAlone(input, 1, 2, <<>>, {}),
     best |-> find_best_span_from_candidates_debug(
                  "graded", input.quote_en,
                  SpanCandidates(CollectAlone(input, 1, 2, <<>>, {})), 0)]

\* what invocation p has returned
OutputsOf(p) ==
    [entities_by_type |-> pl_local[p].entities_by_type,
     candidates |-> pl_local[p].candidates,
     best |-> pl_local[p].best]

C22_NoExceptionEscapes ==
    ss_pc = "done" => ss_raised = "none"

(***************************************************************************)
(* merge_ner_entities: the pending buffer at each token                    *)
(***************************************************************************)
\* merged_groups and buffer when the loop reaches the k-th token
LoopStateAt(k) ==
    MergeLoop([groups |-> <<>>, buffer |-> <<>>], SubSeq(mg_results, 1, k - 1))

\* the k-th token carries the I mark and a type of the label set
IMarkedKept(k) ==
    /\ ParseTag(mg_results[k].entity).tag_type = <<"I">>
    /\ ParseTag(mg_results[k].entity).entity_type \in NER_LABELS

\* C23: an I-marked token of a kept type that meets a pending buffer is
\* appended to it when its type is the type of the buffer's last token and
\* its start is at most one past that token's end; otherwise the buffer is
\* closed and the token starts a new one
C23_IAppendedIffSameTypeAndAdjacent ==
    mg_done =>
      \A k \in 1..Len(mg_results) :
          (IMarkedKept(k) /\ LoopStateAt(k).buffer # <<>>) =>
             LET st == LoopStateAt(k)
                 ent == mg_results[k]
                 last == st.buffer[Len(st.buffer)]
                 fits == /\ ParseTag(ent.entity).entity_type
                              = ParseTag(last.entity).entity_type
                         /\ ent.start <= last.end + 1
                 next == MergeStep(st, ent)
             IN  IF fits
                 THEN next = [groups |-> st.groups, buffer |-> Append(st.buffer, ent)]
                 ELSE next = [groups |-> Append(st.groups, st.buffer),
                              buffer |-> <<ent>>]

\* C24: an I-marked token of a kept type that meets no pending buffer
\* starts a new buffer, and when its text passes the filters of length and
\* punctuation it is part of the word of a returned entity
C24_IWithoutBufferStartsBuffer ==
    mg_done =>
      \A k \in 1..Len(mg_results) :
          (IMarkedKept(k) /\ LoopStateAt(k).buffer = <<>>) =>
             /\ MergeStep(LoopStateAt(k), mg_results[k]).buffer = <<mg_results[k]>>
             /\ Len(Strip(StripSubword(mg_results[k].word))) >= 2 =>
                   \E i \in 1..Len(mg_entities) :
                       Contains(mg_entities[i].word,
                                Strip(StripSubword(mg_results[k].word)))

\* the tokens whose type is in the label set, in their order
KeptTokens(results) ==
    SelectSeq(results, LAMBDA ent : ParseTag(ent.entity).entity_type \in NER_LABELS)

\* C28: a token whose type is outside the label set leaves merged_groups and
\* the pending buffer as they are, and the call returns what it returns for
\* the tokens of kept types alone, so the kept tokens on its two sides merge
\* when the offsets allow
C28_SkippedTokenLeavesBuffer ==
    mg_done =>
      /\ \A k \in 1..Len(mg_results) :
            ParseTag(mg_results[k].entity).entity_type \notin NER_LABELS =>
                LoopStateAt(k + 1) = LoopStateAt(k)
      /\ mg_entities = merge_ner_entities(KeptTokens(mg_results))

\* a kept token, a token of type O and an I-marked token of the same type
\* one past the end of the first, returned as one entity
C28_Witness ==
    /\ mg_done
    /\ Len(mg_results) = 3
    /\ mg_results[1].entity = <<"PER", "-", "B">>
    /\ mg_results[2].entity = <<"O">>
    /\ mg_results[3].entity = <<"PER", "-", "I">>
    /\ mg_results[3].start = mg_results[1].end + 1
    /\ LoopStateAt(3).buffer = <<mg_results[1]>>
    /\ Len(mg_entities) = 1
    /\ mg_entities[1].word
          = StripSubword(mg_results[1].word) \o StripSubword(mg_results[3].word)

(***************************************************************************)
(* qdd2 generate_search_query on what the extraction returns               *)
(***************************************************************************)
\* the words of the entities of one label, in their order
WordsOfLabel(entities, label) ==
    LET of == SelectSeq(entities, LAMBDA ent : ent.label = label)
    IN  [i \in 1..Len(of) |-> of[i].word]

\* the arguments are the entities of merge_ner_entities and their grouping
\* by label of keywords.py: each label with the words of its entities
FromEntityMerger ==
    /\ qb_args.entities # None
    /\ \A i \in 1..Len(qb_args.entities) :
          {"label", "word"} \subseteq DOMAIN qb_args.entities[i]
    /\ \A key \in {"PER", "ORG", "LOC"} :
          DictGet(qb_args.entities_by_type, key)
              = WordsOfLabel(qb_args.entities, <<key>>)

\* C25: in the mode with the date, on the entities of the merger with an
\* ORG entity and no LOC entity, the item after the speaker and the date is
\* that ORG entity, in the query of each language's parts
C25_FocusIsOrgEntity ==
    (/\ qb_version = "qdd2"
     /\ RollcallBranch("qdd2", qb_args)
     /\ FromEntityMerger
     /\ DictGet(qb_args.entities_by_type, "LOC") = <<>>
     /\ DictGet(qb_args.entities_by_type, "ORG") # <<>>)
    => /\ Len(qb_result.parts_ko) = 3
       /\ qb_result.parts_ko[3] = qb_args.entities_by_type["ORG"][1]

(***************************************************************************)
(* normalize_korean_phrase: what is removed                                *)
(***************************************************************************)
\* the separators of the docstring: blank and other whitespace, hyphen,
\* underscore, slash and the middle dots
StatedSeparators == Whitespace \cup {" ", "-", "_", "/", "MIDDOT", "HDOT", "ARAEA"}

\* C26: the result of normalize_korean_phrase holds no separator, no
\* whitespace and no upper-case letter, and is the other characters of the
\* text in their order, in lower case
C26_SeparatorsRemovedAndLowered ==
    nk_calls = 1 =>
        /\ \A i \in 1..Len(nk_text) :
              nk_text[i] \notin StatedSeparators /\ nk_text[i] \notin DOMAIN LowerOf
        /\ nk_text = Lower(RemoveChars(nk_prev, StatedSeparators))

(***************************************************************************)
(* qdd2.name_resolution.resolve_person_name_en as generate_search_query    *)
(* of qdd2 calls it for the speaker                                        *)
(***************************************************************************)
\* the speaker is a key of the lexicon or holds one
SpeakerInLexicon ==
    /\ ~NoPerson
    /\ \E i \in 1..Len(PERSON_NAME_LEXICON) :
          Contains(Strip(qb_args.entities_by_type["PER"][1]),
                   PERSON_NAME_LEXICON[i].key)

\* C27: with the name resolution on, the English name of a speaker that is
\* a key of the lexicon or holds one is the lexicon's name, whatever the
\* lookup and the translator answer
C27_LexiconFirst ==
    (qb_version = "qdd2" /\ qb_args.use_wikidata /\ SpeakerInLexicon)
    => qb_result.speaker_en = En_DonaldTrump

(***************************************************************************)
(* collect_candidates_google_cse: the pages requested.  The call runs in   *)
(* one thread, so a step that can be taken is taken.  cs_loop at a pending *)
(* request holds the start and, as min(10, remaining), the page size of    *)
(* the request.                                                            *)
(***************************************************************************)
CsePagingInit ==
    /\ cs_args \in [top_per_domain : 1..2, domains : 1..MaxDomains,
                    configured : BOOLEAN, api : {"short"}]
                   \cup [top_per_domain : {10, 11}, domains : 1..MaxDomains,
                         configured : {TRUE}, api : {"endless"}]
    /\ cs_pc = "request"
    /\ cs_loop = [domain |-> 1, remaining |-> cs_args.top_per_domain,
                  start |-> 1, attempt |-> 0, page |-> 1]
    /\ cs_candidates = <<>>
    /\ cs_seen = {}
    /\ cs_requests = <<>>
    /\ NormIdle /\ MergeIdle /\ RerankIdle /\ SearchIdle /\ DedupeIdle
    /\ QueryIdle /\ SpanIdle /\ NameIdle /\ ContextIdle /\ EntityIdle
    /\ PipelineIdle

SpecCsePaging == CsePagingInit /\ [][CseNext]_vars /\ WF_vars(CseNext)

\* line 119: the page size of the pending request
PerReq == IF cs_loop.remaining < 10 THEN cs_loop.remaining ELSE 10

\* the candidates accepted for domain d
AcceptedOf(d) == {k \in 1..Len(cs_candidates) : cs_candidates[k].domain = d}

\* a pending request has a start of 1 to 91 and a page size of 1 to 10, and
\* no domain has more candidates than top_per_domain
PagingWithinLimits ==
    /\ cs_pc = "request" =>
          /\ cs_loop.start >= 1 /\ cs_loop.start <= 91
          /\ PerReq >= 1 /\ PerReq <= 10
    /\ \A d \in 1..MaxDomains :
          Cardinality(AcceptedOf(d)) <= cs_args.top_per_domain

\* the request after a page of the same domain has a higher start
StartIncreases ==
    (cs_pc = "request" /\ cs_pc' = "request" /\ cs_loop'.domain = cs_loop.domain
     /\ cs_loop'.page # cs_loop.page)
    => cs_loop'.start > cs_loop.start

\* C29: whatever the API and the page validator answer, the call ends; for
\* each domain the start grows from one page request to the next, no request
\* has a start above 91 or a page size outside 1..10, and no domain gets
\* more than top_per_domain candidates
C29_PagingTerminatesWithinLimits ==
    /\ []PagingWithinLimits
    /\ [][StartIncreases]_vars
    /\ <>(cs_pc \in {"done", "raised"})

\* the call has ended after the API answered ten pages for the last domain,
\* the last one requested at start 91, and one candidate was accepted
C29_Witness ==
    /\ cs_pc = "done"
    /\ cs_args.top_per_domain = 11
    /\ cs_loop.start = 91
    /\ cs_loop.page = 10
    /\ Len(cs_candidates) = 1

(***************************************************************************)
(* The result of find_best_span_from_candidates_debug as Python objects.   *)
(* The dicts of sorted_candidates are named by their positions in the      *)
(* list.  best_global is the first of them (line 224), and line 227 binds  *)
(* its key "top_k_candidates" to the list, whose items are those dicts.    *)
(***************************************************************************)
\* the dicts that dict i of the ranked list holds under "top_k_candidates"
TopKCandidatesOf(i) == IF i = 1 THEN 1..Len(Ranked) ELSE {}

\* the dicts reached from the dicts of S through "top_k_candidates"
RECURSIVE ReachedThroughTopK(_)
ReachedThroughTopK(S) ==
    LET more == S \cup UNION {TopKCandidatesOf(i) : i \in S}
    IN  IF more = S THEN S ELSE ReachedThroughTopK(more)

\* C30: the primary result does not hold itself, neither as an item of its
\* "top_k_candidates" nor through the items of that list
C30_PrimaryHoldsNotItself ==
    (sp_call \in {"debug", "service"} /\ sp_result # <<>>) =>
        1 \notin ReachedThroughTopK(TopKCandidatesOf(1))

====
